---- MODULE Spec2Model ----
(***************************************************************************)
(* A model of blockrsync: the block hasher (pkg/blockrsync/hasher.go), the *)
(* sync client (client.go), the sync server (server.go) and the block      *)
(* framing codec (block_reader.go).                                        *)
(*                                                                         *)
(* Files are sequences of bytes.  A connection is a pair of byte streams;  *)
(* the snappy wrappers around it are a library and carry the bytes written *)
(* to them unchanged, so a stream holds the uncompressed bytes.  A BLAKE2b *)
(* digest is an injective 64-byte image of the hashed bytes (no            *)
(* collisions).                                                            *)
(***************************************************************************)
EXTENDS Integers, Sequences, FiniteSets, TLC

(***************************************************************************)
(* Bounds of the model.                                                    *)
(***************************************************************************)
MaxHashLen == 8       \* longest file hashed in SpecHash
MaxSyncLen == 3       \* longest source and target file of a sync in SpecSync
MaxByte == 1          \* file bytes are 0..MaxByte
MaxDiffSize == 4      \* largest file size DiffHashes is called with in SpecDiff
MaxWriteLen == 5      \* longest source file of writeBlocksToServer in SpecWrite
MaxRecvLen == 3       \* longest source file behind a stream received in SpecRecv
MaxOrderLen == 4      \* longest source file behind a stream received in SpecRecvOrder
NumIds == 2           \* identifiers declared to the proxy, and its workers
MaxFwdLen == 3        \* most bytes a sync source sends through the proxy client
\* The worker cap of hasher.go, where it is 25: scaled down so that the cap
\* and the channel capacities are reached on files of a few blocks.
defaultConcurrency == 3

(***************************************************************************)
(* Program constants.                                                      *)
(***************************************************************************)
BlockSize == 2        \* opts.BlockSize, as in client_test.go
HashLen == 64         \* length of a BLAKE2b-512 digest
Hole == 0
Block == 1
AltBlockSize == 4     \* a block size a peer may be started with instead
identifierLength == 32
blockRsyncPort == 3222
maxRetries == 30

Byte == 0..MaxByte
Roles == {"client", "server"}

(***************************************************************************)
(* Helpers.                                                                *)
(***************************************************************************)
Min(a, b) == IF a < b THEN a ELSE b
Max(a, b) == IF a > b THEN a ELSE b
Range(s) == {s[i] : i \in DOMAIN s}
SeqsUpTo(S, n) == UNION {[1..k -> S] : k \in 0..n}
EmptyMap == [k \in {} |-> <<>>]
MapPut(m, k, v) == [x \in (DOMAIN m) \cup {k} |-> IF x = k THEN v ELSE m[x]]
MapDelete(m, k) == [x \in (DOMAIN m) \ {k} |-> m[x]]
MinOf(S) == CHOOSE x \in S : \A y \in S : x <= y

\* The bytes of file f in [off, off + n), fewer at the end of the file.
ReadAt(f, off, n) ==
  IF off >= Len(f) \/ off < 0 THEN <<>>
  ELSE SubSeq(f, off + 1, Min(Len(f), off + n))

(***************************************************************************)
(* State.                                                                  *)
(***************************************************************************)
VARIABLES
  sfile,      \* the bytes of the source file
  tfile,      \* the bytes of the target file (created empty when absent)
  tfile0,     \* the bytes of the target file before the sync
  blockSize,  \* role -> opts.BlockSize, the blockSize of its FileHasher
  \* FileHasher, one per role -------------------------------------------
  hpc,        \* HashFile of the role: "idle", "spawn", "collect", "returned",
              \* or "failed" when it returned the error of getFileSize
  fileSize,   \* f.fileSize
  hashes,     \* f.hashes: offset -> digest
  queue,      \* f.queue, the buffered channel of offsets
  qclosed,    \* f.queue has been closed
  res,        \* f.res, the buffered channel of OffsetHash
  nextOff,    \* the loop variable i of calculateOffsets
  wgCount,    \* the counter of the sync.WaitGroup
  waiter,     \* the goroutine around wg.Wait: "idle", "wait", "send", "exit"
  spawned,    \* workers started so far by the loop of HashFile
  workers,    \* worker goroutine -> [st, off]
  \* one sync ---------------------------------------------------------
  isDevice,   \* the target is a block device, not a regular file
  prealloc,   \* opts.Preallocation of the server
  cpc,        \* where ConnectToTarget is
  cres,       \* what ConnectToTarget returned: "running", "ok", "err"
  spc,        \* where StartServer is
  sres,       \* what StartServer returned: "running", "ok", "err"
  hh,         \* role -> the hash of hashes it has sent, <<>> before
  s2c,        \* the bytes the server has written to the connection
  c2s,        \* the bytes the client has written to the connection
  sourceSize, \* b.sourceSize of the client
  peer,       \* what DeserializeHashes gave the client
  diff,       \* the diff the client computed
  diffErr,    \* the error DiffHashes returned
  sent,       \* the records the client wrote, in order
  targetFileSize, \* b.targetFileSize of the server
  rd,         \* the bytes of c2s the server has not read yet
  br,         \* the BlockReader of the server
  fops,       \* the truncates, writes and hole punches made on the target
  \* the I/O around a sync: faults, fixed through a run, and errors ---
  rdErr,      \* what a read returns to the server past the last byte of c2s
  wrFail,     \* [k, err]: the k-th Write of the client's writer fails with err (k = 0: none)
  wrErr,      \* what writeBlocksToServer returned, "unset" before
  hfault,     \* the hashing worker whose os.Open fails (0: none), the
              \* offset at which Seek or Read fails (-1: none) and the
              \* role whose getFileSize fails ("none": none)
  punchErr,   \* what syscall.Fallocate returns to PunchHole
  hlog,       \* role -> what the hashing workers logged as failed
  \* the identifier-multiplex proxy ------------------------------------
  conns,      \* connection to the proxy port -> [st, up, eof, rst, rd, by]
  processing, \* processingMap: header -> worker index
  wk,         \* proxy worker -> [pc, conn, file, header]
  backends,   \* the sync servers forked, in order: [file, port, conn, up, recv]
  pwg,        \* the counter of ProxyServer.wg
  ppc,        \* where ProxyServer.StartServer is: "running", "returned"
  pcl,        \* the proxy client: [pc, id, conn, src, fwd, retryCount, attempts]
  dial        \* the sync client's Connect: [pc, retryCount, attempts]

hasherVars == <<hpc, fileSize, hashes, queue, qclosed, res, nextOff, wgCount,
                waiter, spawned, workers, hlog>>
ioVars == <<rdErr, wrFail, wrErr, hfault, punchErr>>
netVars == <<conns, processing, wk, backends, pwg, ppc, pcl, dial>>
fileVars == <<sfile, tfile, tfile0, blockSize, ioVars, netVars>>
clientVars == <<cpc, cres, sourceSize, peer, diff, diffErr, sent, c2s>>
serverVars == <<isDevice, prealloc, spc, sres, s2c, targetFileSize, rd, br, fops>>
vars == <<fileVars, hasherVars, clientVars, serverVars, hh>>

Files(n) == SeqsUpTo(Byte, n)
FileOf(r) == IF r = "client" THEN sfile ELSE tfile
WorkerIds == 1..defaultConcurrency

(***************************************************************************)
(* hasher.go                                                               *)
(***************************************************************************)
\* blake2b.New512 / h.Sum over the bytes written: an injective image of the
\* input, HashLen bytes long.
Blake2b512(bytes) ==
  [i \in 1..HashLen |->
     IF i = 1 THEN Len(bytes)
     ELSE IF i - 1 <= Len(bytes) THEN 1 + bytes[i - 1] ELSE 0]

\* getFileSize: Seek(0, io.SeekEnd) on the opened file.
getFileSize(file) == Len(file)

\* A count that takes the short final block for a whole one.
concurrentHashCount_Ceil(size, bs) == Min(defaultConcurrency, (size + bs - 1) \div bs)

\* concurrentHashCount: int(math.Min(defaultConcurrency, fileSize/blockSize)).
concurrentHashCount(size, bs) == Min(defaultConcurrency, size \div bs)

\* No worker fails to open the file, no block fails to be read and
\* getFileSize succeeds.
NoHashFault == [open |-> 0, read |-> 0 - 1, size |-> "none"]

NewWorkers == [w \in WorkerIds |-> [st |-> "unborn", off |-> 0]]

\* NewFileHasher: empty map, empty channels.
HasherInit ==
  /\ hpc = [r \in Roles |-> "idle"]
  /\ fileSize = [r \in Roles |-> 0]
  /\ hashes = [r \in Roles |-> EmptyMap]
  /\ queue = [r \in Roles |-> <<>>]
  /\ qclosed = [r \in Roles |-> FALSE]
  /\ res = [r \in Roles |-> <<>>]
  /\ nextOff = [r \in Roles |-> 0]
  /\ wgCount = [r \in Roles |-> 0]
  /\ waiter = [r \in Roles |-> "idle"]
  /\ hlog = [r \in Roles |-> {}]
  /\ spawned = [r \in Roles |-> 0]
  /\ workers = [r \in Roles |-> NewWorkers]

\* HashFile up to its worker loop: the size is taken, calculateOffsets and
\* the goroutine around wg.Wait are started, count is computed.  The two
\* FileHashers of a sync share nothing, so every step of one commutes with
\* every step of the other: the model runs the two calls of HashFile one
\* after the other, in either order.
HashFileEnter(r) ==
  /\ hpc[r] = "idle"
  /\ \A o \in Roles \ {r} : hpc[o] \in {"idle", "returned", "failed"}
  /\ IF hfault.size = r
       THEN /\ hpc' = [hpc EXCEPT ![r] = "failed"]
            /\ UNCHANGED <<fileSize, waiter>>
       ELSE /\ fileSize' = [fileSize EXCEPT ![r] = getFileSize(FileOf(r))]
            /\ waiter' = [waiter EXCEPT ![r] = "wait"]
            /\ hpc' = [hpc EXCEPT ![r] =
                 IF concurrentHashCount(getFileSize(FileOf(r)), blockSize[r]) = 0
                   THEN "collect" ELSE "spawn"]
  /\ UNCHANGED <<hlog, hashes, queue, qclosed, res, nextOff, wgCount, spawned, workers>>

\* One turn of "for i := 0; i < count; i++": wg.Add(1) and go worker.
SpawnWorker(r) ==
  /\ hpc[r] = "spawn"
  /\ wgCount' = [wgCount EXCEPT ![r] = @ + 1]
  /\ workers' = [workers EXCEPT ![r][spawned[r] + 1].st = "open"]
  /\ spawned' = [spawned EXCEPT ![r] = @ + 1]
  /\ hpc' = [hpc EXCEPT ![r] =
       IF spawned[r] + 1 = concurrentHashCount(fileSize[r], blockSize[r]) THEN "collect" ELSE "spawn"]
  /\ UNCHANGED <<hlog, fileSize, hashes, queue, qclosed, res, nextOff, waiter>>

\* A dispatcher that steps through the file byte by byte.
DispatchOffset_ByOne(r) ==
  /\ hpc[r] \in {"spawn", "collect"}
  /\ ~qclosed[r]
  /\ nextOff[r] < fileSize[r]
  /\ Len(queue[r]) < defaultConcurrency
  /\ queue' = [queue EXCEPT ![r] = Append(@, nextOff[r])]
  /\ nextOff' = [nextOff EXCEPT ![r] = @ + 1]
  /\ UNCHANGED <<hlog, hpc, fileSize, hashes, qclosed, res, wgCount, waiter, spawned, workers>>

\* calculateOffsets: f.queue <- i, blocking while the channel is full.
DispatchOffset(r) ==
  /\ hpc[r] \in {"spawn", "collect"}
  /\ ~qclosed[r]
  /\ nextOff[r] < fileSize[r]
  /\ Len(queue[r]) < defaultConcurrency
  /\ queue' = [queue EXCEPT ![r] = Append(@, nextOff[r])]
  /\ nextOff' = [nextOff EXCEPT ![r] = @ + blockSize[r]]
  /\ UNCHANGED <<hlog, hpc, fileSize, hashes, qclosed, res, wgCount, waiter, spawned, workers>>

\* calculateOffsets: the deferred close(f.queue).
DispatchClose(r) ==
  /\ hpc[r] \in {"spawn", "collect"}
  /\ ~qclosed[r]
  /\ nextOff[r] >= fileSize[r]
  /\ qclosed' = [qclosed EXCEPT ![r] = TRUE]
  /\ UNCHANGED <<hlog, hpc, fileSize, hashes, queue, res, nextOff, wgCount, waiter, spawned, workers>>

\* The worker goroutine: os.Open(fileName); when it fails the worker logs
\* that and returns, which runs the deferred wg.Done.
WorkerOpen(r, w) ==
  /\ hpc[r] \in {"spawn", "collect"}
  /\ workers[r][w].st = "open"
  /\ IF hfault.open = w
       THEN /\ hlog' = [hlog EXCEPT ![r] = @ \cup {"Failed to open file"}]
            /\ workers' = [workers EXCEPT ![r][w].st = "exit"]
            /\ wgCount' = [wgCount EXCEPT ![r] = @ - 1]
       ELSE /\ workers' = [workers EXCEPT ![r][w].st = "recv"]
            /\ UNCHANGED <<hlog, wgCount>>
  /\ UNCHANGED <<hpc, fileSize, hashes, queue, qclosed, res, nextOff, waiter, spawned>>

\* "for offset := range f.queue": an offset is received.
WorkerRecv(r, w) ==
  /\ hpc[r] \in {"spawn", "collect"}
  /\ workers[r][w].st = "recv"
  /\ queue[r] # <<>>
  /\ workers' = [workers EXCEPT ![r][w] = [st |-> "send", off |-> Head(queue[r])]]
  /\ queue' = [queue EXCEPT ![r] = Tail(@)]
  /\ UNCHANGED <<hlog, hpc, fileSize, hashes, qclosed, res, nextOff, wgCount, waiter, spawned>>

\* calculateHash: seek, read up to blockSize bytes, hash them, f.res <- it
\* (blocking while the channel is full); when the seek or the read fails it
\* returns the error, and the worker logs it and returns.
calculateHash(r, w) ==
  /\ hpc[r] \in {"spawn", "collect"}
  /\ workers[r][w].st = "send"
  /\ IF hfault.read = workers[r][w].off
       THEN /\ hlog' = [hlog EXCEPT ![r] = @ \cup {"Failed to calculate hash"}]
            /\ workers' = [workers EXCEPT ![r][w].st = "exit"]
            /\ wgCount' = [wgCount EXCEPT ![r] = @ - 1]
            /\ UNCHANGED res
       ELSE /\ Len(res[r]) < defaultConcurrency
            /\ res' = [res EXCEPT ![r] = Append(@,
                 [Offset |-> workers[r][w].off,
                  Hash |-> Blake2b512(ReadAt(FileOf(r), workers[r][w].off, blockSize[r]))])]
            /\ workers' = [workers EXCEPT ![r][w].st = "recv"]
            /\ UNCHANGED <<hlog, wgCount>>
  /\ UNCHANGED <<hpc, fileSize, hashes, queue, qclosed, nextOff, waiter, spawned>>

\* The range loop ends on the closed, drained queue; the deferred wg.Done.
WorkerExit(r, w) ==
  /\ hpc[r] \in {"spawn", "collect"}
  /\ workers[r][w].st = "recv"
  /\ queue[r] = <<>>
  /\ qclosed[r]
  /\ workers' = [workers EXCEPT ![r][w].st = "exit"]
  /\ wgCount' = [wgCount EXCEPT ![r] = @ - 1]
  /\ UNCHANGED <<hlog, hpc, fileSize, hashes, queue, qclosed, res, nextOff, waiter, spawned>>

\* wg.Wait() returns whenever the counter is zero, also before the first
\* wg.Add(1) of the loop that HashFile runs after starting this goroutine.
WaitReturns(r) ==
  /\ hpc[r] \in {"spawn", "collect"}
  /\ waiter[r] = "wait"
  /\ wgCount[r] = 0
  /\ waiter' = [waiter EXCEPT ![r] = "send"]
  /\ UNCHANGED <<hlog, hpc, fileSize, hashes, queue, qclosed, res, nextOff, wgCount, spawned, workers>>

\* select, case offsetHash := <-f.res.
CollectResult(r) ==
  /\ hpc[r] = "collect"
  /\ res[r] # <<>>
  /\ hashes' = [hashes EXCEPT ![r] = MapPut(@, Head(res[r]).Offset, Head(res[r]).Hash)]
  /\ res' = [res EXCEPT ![r] = Tail(@)]
  /\ UNCHANGED <<hlog, hpc, fileSize, queue, qclosed, nextOff, wgCount, waiter, spawned, workers>>

\* select, case <-done: the rendezvous with "done <- struct{}{}"; HashFile
\* returns f.fileSize.  A select with several ready cases takes any of them.
\* The goroutines HashFile leaves behind touch only f.queue and f.res, which
\* nothing reads after the return: from here on the model does not track
\* them, and the channels and goroutines read as at the start.
CollectDone(r) ==
  /\ hpc[r] = "collect"
  /\ waiter[r] = "send"
  /\ waiter' = [waiter EXCEPT ![r] = "exit"]
  /\ hpc' = [hpc EXCEPT ![r] = "returned"]
  /\ queue' = [queue EXCEPT ![r] = <<>>]
  /\ qclosed' = [qclosed EXCEPT ![r] = FALSE]
  /\ res' = [res EXCEPT ![r] = <<>>]
  /\ nextOff' = [nextOff EXCEPT ![r] = 0]
  /\ wgCount' = [wgCount EXCEPT ![r] = 0]
  /\ spawned' = [spawned EXCEPT ![r] = 0]
  /\ workers' = [workers EXCEPT ![r] = NewWorkers]
  /\ UNCHANGED <<hlog, fileSize, hashes>>

\* The steps of one FileHasher between HashFileEnter and the return.
HasherStep(r) ==
  \/ SpawnWorker(r)
  \/ DispatchOffset(r)
  \/ DispatchClose(r)
  \/ \E w \in WorkerIds : WorkerOpen(r, w)
  \/ \E w \in WorkerIds : WorkerRecv(r, w)
  \/ \E w \in WorkerIds : calculateHash(r, w)
  \/ \E w \in WorkerIds : WorkerExit(r, w)
  \/ WaitReturns(r)
  \/ CollectResult(r)
  \/ CollectDone(r)

\* The offsets calculateOffsets walks for a file of the given size.
BlockOffsets(size, bs) == {k \in 0..(size - 1) : k % bs = 0}

(***************************************************************************)
(* encoding/binary, little endian.  Model values stay below 2^24 in        *)
(* magnitude, so the upper five bytes are the sign extension.              *)
(***************************************************************************)
Int64Len == 8
PutInt64(n) ==
  [i \in 1..Int64Len |->
     IF i = 1 THEN n % 256
     ELSE IF i = 2 THEN (n \div 256) % 256
     ELSE IF i = 3 THEN (n \div 65536) % 256
     ELSE IF n < 0 THEN 255 ELSE 0]
GetInt64(b) ==
  b[1] + 256 * b[2] + 65536 * b[3] - (IF b[Int64Len] >= 128 THEN 16777216 ELSE 0)

\* io.ReadFull(r, buf[:n]) on the bytes s still to come, the reader
\* returning e past them: at the end of the stream (e = io.EOF) io.EOF when
\* no byte is left and io.ErrUnexpectedEOF when fewer than n are; any other
\* error e as it is.
ReadFullErr(s, n, e) ==
  IF Len(s) >= n
    THEN [err |-> "nil", data |-> SubSeq(s, 1, n), rest |-> SubSeq(s, n + 1, Len(s))]
    ELSE [err |-> IF e # "EOF" THEN e
                  ELSE IF Len(s) = 0 THEN "EOF" ELSE "ErrUnexpectedEOF",
          data |-> s, rest |-> <<>>]

\* io.ReadFull on a stream that ends after the bytes s.
ReadFull(s, n) == ReadFullErr(s, n, "EOF")

\* binary.Read(r, binary.LittleEndian, &int64), the reader returning e past
\* the bytes s.
ReadInt64Err(s, e) ==
  LET r == ReadFullErr(s, Int64Len, e) IN
    [err |-> r.err, val |-> IF r.err = "nil" THEN GetInt64(r.data) ELSE 0, rest |-> r.rest]

\* binary.Read on a stream that ends after the bytes s.
ReadInt64(s) == ReadInt64Err(s, "EOF")

RECURSIVE SortedSeq(_)
\* slices.SortFunc(keys, int64SortFunc) of the elements of a set.
SortedSeq(S) == IF S = {} THEN <<>> ELSE <<MinOf(S)>> \o SortedSeq(S \ {MinOf(S)})

RECURSIVE SerializeEntries(_, _)
SerializeEntries(h, keys) ==
  IF keys = <<>> THEN [err |-> "nil", out |-> <<>>]
  ELSE IF Len(h[Head(keys)]) # HashLen
    THEN [err |-> "invalid hash length", out |-> PutInt64(Head(keys))]
    ELSE LET r == SerializeEntries(h, Tail(keys)) IN
      [err |-> r.err, out |-> PutInt64(Head(keys)) \o h[Head(keys)] \o r.out]

\* SerializeHashes: block size, number of entries, then offset and digest of
\* every entry in ascending offset order.
SerializeHashes(bs, h) ==
  LET r == SerializeEntries(h, SortedSeq(DOMAIN h)) IN
    [err |-> r.err,
     out |-> PutInt64(bs) \o PutInt64(Cardinality(DOMAIN h)) \o r.out]

DeserializeFail(e) == [err |-> e, blockSize |-> 0, hashes |-> EmptyMap]

RECURSIVE DeserializeEntries(_, _, _, _, _)
DeserializeEntries(s, i, length, bs, acc) ==
  IF i >= length THEN [err |-> "nil", blockSize |-> bs, hashes |-> acc]
  ELSE LET o == ReadInt64(s) IN
    IF o.err # "nil" THEN DeserializeFail(o.err)
    ELSE IF o.val < 0 \/ o.val > length * bs THEN DeserializeFail("invalid offset")
    ELSE LET d == ReadFull(o.rest, HashLen) IN
      IF d.err # "nil" THEN DeserializeFail(d.err)
      ELSE DeserializeEntries(d.rest, i + 1, length, bs, MapPut(acc, o.val, d.data))

\* DeserializeHashes: (blockSize, hashes, err) read from the bytes s.
DeserializeHashes(s) ==
  LET b == ReadInt64(s) IN
    IF b.err # "nil" THEN DeserializeFail(b.err)
    ELSE LET n == ReadInt64(b.rest) IN
      IF n.err # "nil" THEN DeserializeFail(n.err)
      ELSE DeserializeEntries(n.rest, 0, n.val, b.val, EmptyMap)

\* The scan of DiffHashes: "for k, v := range f.hashes" visiting the keys in
\* the order given, with the entries found deleted from cmpHash.
RECURSIVE DiffLocal(_, _, _)
DiffLocal(order, local, cmpHash) ==
  IF order = <<>> THEN [diff |-> <<>>, cmp |-> cmpHash]
  ELSE LET k == Head(order)
           hit == k \in DOMAIN cmpHash
           r == DiffLocal(Tail(order), local, IF hit THEN MapDelete(cmpHash, k) ELSE cmpHash)
       IN [diff |-> (IF ~hit \/ local[k] # cmpHash[k] THEN <<k>> ELSE <<>>) \o r.diff,
           cmp |-> r.cmp]

\* "for k := range cmpHash": the remaining keys below the size of the file.
RECURSIVE DiffRemaining(_, _)
DiffRemaining(order, size) ==
  IF order = <<>> THEN <<>>
  ELSE (IF Head(order) < size THEN <<Head(order)>> ELSE <<>>) \o DiffRemaining(Tail(order), size)

\* The keys of a map in the order a "range" visits them, when ord lists
\* the keys in that order (a Go map is ranged over in no fixed order).
RangeOrder(m, ord) ==
  LET In(k) == k \in DOMAIN m IN SelectSeq(ord, In)

\* DiffHashes without the comparison of the block sizes.
DiffHashesIn_NoSizeCheck(local, size, bs, pbs, cmpHash, ord1, ord2) ==
  LET a == DiffLocal(RangeOrder(local, ord1), local, cmpHash) IN
    [err |-> "nil", diff |-> a.diff \o DiffRemaining(RangeOrder(a.cmp, ord2), size)]

\* DiffHashes with every remaining key of cmpHash taken, whatever the size.
DiffHashesIn_NoSizeBound(local, size, bs, pbs, cmpHash, ord1, ord2) ==
  IF pbs # bs THEN [err |-> "block size mismatch", diff |-> <<>>]
  ELSE LET a == DiffLocal(RangeOrder(local, ord1), local, cmpHash) IN
    [err |-> "nil", diff |-> a.diff \o RangeOrder(a.cmp, ord2)]

\* DiffHashes of the hasher with map local, file size size and block size
\* bs, against (pbs, cmpHash), the two loops visiting keys as ord1 and ord2
\* list them.
DiffHashesIn(local, size, bs, pbs, cmpHash, ord1, ord2) ==
  IF pbs # bs THEN [err |-> "block size mismatch", diff |-> <<>>]
  ELSE LET a == DiffLocal(RangeOrder(local, ord1), local, cmpHash) IN
    [err |-> "nil", diff |-> a.diff \o DiffRemaining(RangeOrder(a.cmp, ord2), size)]

\* DiffHashes with both maps ranged over in ascending key order; every caller
\* sorts the result before using its order.
DiffHashes(local, size, bs, pbs, cmpHash) ==
  DiffHashesIn(local, size, bs, pbs, cmpHash,
               SortedSeq(DOMAIN local), SortedSeq(DOMAIN cmpHash))

(***************************************************************************)
(* The target file.  A regular file grows when written past its end; a     *)
(* block device has a fixed size.  A punched range reads as zeros.         *)
(***************************************************************************)
Zeros(n) == [i \in 1..n |-> 0]

\* f.Truncate(size) on a regular file.
Truncate(f, size) ==
  IF size <= Len(f) THEN SubSeq(f, 1, size) ELSE f \o Zeros(size - Len(f))

\* The bytes of f after data is written at off; a regular file is extended,
\* with zeros in a gap; on a device the bytes past its end are not written.
WriteAt(f, data, off, device) ==
  IF data = <<>> THEN f ELSE
  LET end == IF device THEN Min(Len(f), off + Len(data)) ELSE off + Len(data)
      size == IF device THEN Len(f) ELSE Max(Len(f), end)
  IN [i \in 1..size |->
        IF i > off /\ i <= end THEN data[i - off]
        ELSE IF i <= Len(f) THEN f[i] ELSE 0]

\* PunchHole: fallocate(FALLOC_FL_KEEP_SIZE|FALLOC_FL_PUNCH_HOLE, offset, size);
\* the size of the file is kept, and so is the file when the call fails.
PunchHole(f, off, size) ==
  IF punchErr # "nil" THEN f
  ELSE [i \in 1..Len(f) |-> IF i > off /\ i <= off + size THEN 0 ELSE f[i]]

(***************************************************************************)
(* client.go                                                               *)
(***************************************************************************)
\* emptyBlock, the zeroed buffer of one block that isEmptyBlock compares with.
emptyBlock(bs) == Zeros(bs)

\* isEmptyBlock: bytes.Equal(buf, emptyBlock).
isEmptyBlock(buf, bs) == buf = emptyBlock(bs)

\* f.ReadAt(buf, offset): the first n bytes of buf are overwritten with the
\* n bytes read, the others keep what they held.
ReadIntoBuf(buf, f, offset) ==
  LET got == ReadAt(f, offset, Len(buf)) IN
    [n |-> Len(got),
     buf |-> [i \in 1..Len(buf) |-> IF i <= Len(got) THEN got[i] ELSE buf[i]]]

\* One turn of "for i, offset := range offsets" with the payload never cut
\* to the n bytes read.
WriteRecord_WholeBuf(offset, f, buf, bs) ==
  LET r == ReadIntoBuf(buf, f, offset) IN
    IF isEmptyBlock(r.buf, bs)
      THEN [rec |-> [offset |-> offset, kind |-> Hole, payload |-> <<>>], buf |-> r.buf]
      ELSE [rec |-> [offset |-> offset, kind |-> Block, payload |-> r.buf], buf |-> r.buf]

\* One turn of the loop with the kind chosen from the buffer as it was
\* before f.ReadAt.
WriteRecord_KindBeforeRead(offset, f, buf, bs) ==
  LET r == ReadIntoBuf(buf, f, offset) IN
    IF isEmptyBlock(buf, bs)
      THEN [rec |-> [offset |-> offset, kind |-> Hole, payload |-> <<>>], buf |-> r.buf]
      ELSE [rec |-> [offset |-> offset, kind |-> Block, payload |-> SubSeq(r.buf, 1, r.n)],
            buf |-> SubSeq(r.buf, 1, r.n)]

\* One turn of "for i, offset := range offsets" of writeBlocksToServer, from
\* the buffer buf on: the record written, with the kind chosen and the
\* payload that follows it, and the buffer afterwards (buf = buf[:n] after a
\* block).
WriteRecord(offset, f, buf, bs) ==
  LET r == ReadIntoBuf(buf, f, offset) IN
    IF isEmptyBlock(r.buf, bs)
      THEN [rec |-> [offset |-> offset, kind |-> Hole, payload |-> <<>>], buf |-> r.buf]
      ELSE [rec |-> [offset |-> offset, kind |-> Block, payload |-> SubSeq(r.buf, 1, r.n)],
            buf |-> SubSeq(r.buf, 1, r.n)]

\* The loop over the offsets: the records written, in order.
RECURSIVE WriteRecords(_, _, _, _)
WriteRecords(offsets, f, buf, bs) ==
  IF offsets = <<>> THEN <<>>
  ELSE LET w == WriteRecord(Head(offsets), f, buf, bs)
       IN <<w.rec>> \o WriteRecords(Tail(offsets), f, w.buf, bs)

\* The calls of writer.Write that a record makes, in order.
RecordWrites(rec) ==
  IF rec.kind = Hole THEN <<PutInt64(rec.offset), <<Hole>>>>
  ELSE <<PutInt64(rec.offset), <<Block>>, rec.payload>>

RECURSIVE Flatten(_)
Flatten(ss) == IF ss = <<>> THEN <<>> ELSE Head(ss) \o Flatten(Tail(ss))

\* writeBlocksToServer with a writer that takes every write: the source size,
\* then the records of the sorted offsets, read through one buffer.
writeBlocksToServer(size, offsets, f, bs) ==
  LET recs == WriteRecords(SortedSeq(Range(offsets)), f, Zeros(bs), bs) IN
    [records |-> recs,
     writes |-> <<PutInt64(size)>> \o Flatten([i \in 1..Len(recs) |-> RecordWrites(recs[i])])]

\* The calls ws of writer.Write made in order with every failed call skipped
\* and the next one made all the same.
RECURSIVE WriteAll_Continue(_, _, _)
WriteAll_Continue(ws, k, e) ==
  IF ws = <<>> THEN [err |-> "nil", out |-> <<>>]
  ELSE LET r == WriteAll_Continue(Tail(ws), IF k = 0 THEN 0 ELSE k - 1, e) IN
    [err |-> IF k = 1 THEN e ELSE r.err,
     out |-> (IF k = 1 THEN <<>> ELSE Head(ws)) \o r.out]

\* The calls ws of writer.Write that writeBlocksToServer makes, in order, on a
\* writer whose k-th call from here fails with e (k = 0: no call fails):
\* every call is followed by "if err != nil { return err }".  The error
\* returned and the bytes the writer took.
RECURSIVE WriteAll(_, _, _)
WriteAll(ws, k, e) ==
  IF ws = <<>> THEN [err |-> "nil", out |-> <<>>]
  ELSE IF k = 1 THEN [err |-> e, out |-> <<>>]
  ELSE LET r == WriteAll(Tail(ws), IF k = 0 THEN 0 ELSE k - 1, e) IN
    [err |-> r.err, out |-> Head(ws) \o r.out]

(***************************************************************************)
(* block_reader.go                                                         *)
(***************************************************************************)
\* NewBlockReader.
NewBlockReader(bs) == [offset |-> 0, offsetType |-> Hole, buf |-> Zeros(bs)]

\* handleReadError letting no error through.
handleReadError_Swallow(err) == "nil"

\* handleReadError: EOF and ErrUnexpectedEOF end the stream without an error.
handleReadError(err) ==
  IF err = "EOF" \/ err = "ErrUnexpectedEOF" THEN "nil" ELSE err

\* BlockReader.Next whose callback does not cut the buffer to the bytes read
\* of a payload that the end of the stream cut short.
Next_KeepBuf(b, s, bs, e) ==
  LET o == ReadInt64Err(s, e) IN
  IF o.err # "nil"
    THEN [cont |-> FALSE, err |-> handleReadError(o.err), br |-> b, rest |-> o.rest]
  ELSE LET b1 == [b EXCEPT !.offset = o.val] IN
  IF o.rest = <<>>
    THEN [cont |-> FALSE, err |-> handleReadError(e), br |-> b1, rest |-> <<>>]
  ELSE LET b2 == [b1 EXCEPT !.offsetType = Head(o.rest)] IN
  IF b2.offsetType = Hole
    THEN [cont |-> TRUE, err |-> "nil", br |-> b2, rest |-> Tail(o.rest)]
  ELSE LET d == ReadFullErr(Tail(o.rest), bs, e) IN
    [cont |-> d.err = "nil", err |-> handleReadError(d.err),
     br |-> [b2 EXCEPT !.buf = [i \in 1..Len(b2.buf) |->
                                 IF i <= Len(d.data) THEN d.data[i] ELSE b2.buf[i]]],
     rest |-> d.rest]

\* BlockReader.Next on the bytes s still to come, the source returning e
\* past them: cont and err returned, the reader afterwards and the bytes left.
Next(b, s, bs, e) ==
  LET o == ReadInt64Err(s, e) IN
  IF o.err # "nil"
    THEN [cont |-> FALSE, err |-> handleReadError(o.err), br |-> b, rest |-> o.rest]
  ELSE LET b1 == [b EXCEPT !.offset = o.val] IN
  IF o.rest = <<>>
    THEN [cont |-> FALSE, err |-> handleReadError(e), br |-> b1, rest |-> <<>>]
  ELSE LET b2 == [b1 EXCEPT !.offsetType = Head(o.rest)] IN
  IF b2.offsetType = Hole
    THEN [cont |-> TRUE, err |-> "nil", br |-> b2, rest |-> Tail(o.rest)]
  ELSE LET d == ReadFullErr(Tail(o.rest), bs, e) IN
  IF d.err # "nil"
    THEN [cont |-> FALSE, err |-> handleReadError(d.err),
          br |-> [b2 EXCEPT !.buf =
                    IF handleReadError(d.err) = "nil" THEN d.data
                    ELSE [i \in 1..Len(b2.buf) |->
                            IF i <= Len(d.data) THEN d.data[i] ELSE b2.buf[i]]],
          rest |-> d.rest]
    ELSE [cont |-> TRUE, err |-> "nil",
          br |-> [b2 EXCEPT !.buf = SubSeq(d.data, 1, Len(b2.buf))],
          rest |-> d.rest]

(***************************************************************************)
(* server.go                                                               *)
(***************************************************************************)
\* truncateFileIfNeeded: a regular file is set to the source size; on a
\* device the range past the source size is deallocated.
truncateFileIfNeeded(f, srcSize, tgtSize, device) ==
  IF ~device
    THEN IF srcSize < 0
      THEN [err |-> "EINVAL", file |-> f, ops |-> <<>>]
      ELSE [err |-> "nil", file |-> Truncate(f, srcSize),
            ops |-> <<[op |-> "truncate", off |-> srcSize, len |-> 0]>>]
  ELSE IF tgtSize > srcSize
    THEN [err |-> "nil", file |-> PunchHole(f, srcSize, tgtSize - srcSize),
          ops |-> <<[op |-> "punch", off |-> srcSize, len |-> tgtSize - srcSize]>>]
    ELSE [err |-> "nil", file |-> f, ops |-> <<>>]

\* A write of data at off: on a device the bytes past its end fail.
FileWrite(f, data, off, device) ==
  IF off < 0 THEN [err |-> "EINVAL", file |-> f, ops |-> <<>>]
  ELSE [err |-> IF device /\ off + Len(data) > Len(f) THEN "ENOSPC" ELSE "nil",
        file |-> WriteAt(f, data, off, device),
        ops |-> <<[op |-> "write", off |-> off, len |-> Len(data)]>>]

\* handleEmptyBlock with the hole punched from offset to the end of the file.
handleEmptyBlock_ToEnd(offset, f, tgtSize, bs, pre, device) ==
  LET emptySize == Min(tgtSize - offset, bs) IN
  IF pre
    THEN IF emptySize < 0 THEN [err |-> "panic", file |-> f, ops |-> <<>>]
         ELSE FileWrite(f, Zeros(emptySize), offset, device)
    ELSE [err |-> "nil",
          file |-> IF offset < 0 THEN f ELSE PunchHole(f, offset, Max(tgtSize - offset, bs)),
          ops |-> <<[op |-> "punch", off |-> offset, len |-> bs]>>]

\* handleEmptyBlock: zeros of min(targetFileSize - offset, blockSize) bytes
\* with preallocation (make panics on a negative length), a punched hole of
\* blockSize bytes without; what PunchHole returns is dropped.
handleEmptyBlock(offset, f, tgtSize, bs, pre, device) ==
  LET emptySize == Min(tgtSize - offset, bs) IN
  IF pre
    THEN IF emptySize < 0 THEN [err |-> "panic", file |-> f, ops |-> <<>>]
         ELSE FileWrite(f, Zeros(emptySize), offset, device)
    ELSE [err |-> "nil",
          file |-> IF offset < 0 THEN f ELSE PunchHole(f, offset, bs),
          ops |-> <<[op |-> "punch", off |-> offset, len |-> bs]>>]

\* writeBlockToOffset: Seek(offset, io.SeekStart), then Write(block).
writeBlockToOffset(block, offset, f, device) == FileWrite(f, block, offset, device)

\* The body of the loop of writeBlocksToFile after blockReader.Next.
ApplyRecord(b, f, tgtSize, bs, pre, device) ==
  IF b.offsetType = Hole
    THEN handleEmptyBlock(b.offset, f, tgtSize, bs, pre, device)
    ELSE writeBlockToOffset(b.buf, b.offset, f, device)

(***************************************************************************)
(* One sync: ConnectToTarget (client.go) against StartServer (server.go).  *)
(***************************************************************************)
Other(r) == IF r = "client" THEN "server" ELSE "client"

\* The hash of hashes CompareHashHash sends: the BLAKE2b-512 of the
\* serialized local hashes, here those bytes themselves (no collisions).
HashOfHashes(r) == SerializeHashes(blockSize[r], hashes[r]).out

NoPeer == [err |-> "unset", blockSize |-> 0, hashes |-> EmptyMap]
NoWriteFault == [k |-> 0, err |-> "nil"]

ProtocolInit ==
  /\ cpc = "start"
  /\ cres = "running"
  /\ spc = "start"
  /\ sres = "running"
  /\ hh = [r \in Roles |-> <<>>]
  /\ s2c = <<>>
  /\ c2s = <<>>
  /\ sourceSize = 0
  /\ peer = NoPeer
  /\ diff = <<>>
  /\ diffErr = "unset"
  /\ sent = <<>>
  /\ targetFileSize = 0
  /\ rd = <<>>
  /\ br = NewBlockReader(blockSize["server"])
  /\ fops = <<>>

\* connectionProvider.Connect: the dial succeeds once the server listens.
ClientConnect ==
  /\ cpc = "start"
  /\ spc # "start"
  /\ cpc' = "connected"
  /\ UNCHANGED <<fileVars, hasherVars, serverVars, hh, cres, sourceSize, peer, diff, diffErr, sent, c2s>>

\* b.hasher.HashFile(b.sourceFile) is called.
ClientHashFile ==
  /\ cpc = "connected"
  /\ HashFileEnter("client")
  /\ cpc' = "hashing"
  /\ UNCHANGED <<fileVars, serverVars, hh, cres, sourceSize, peer, diff, diffErr, sent, c2s>>

\* HashFile has returned: its error is returned, or b.sourceSize = size and
\* CompareHashHash sends the hash of hashes.
ClientHashed ==
  /\ cpc = "hashing"
  /\ hpc["client"] \in {"returned", "failed"}
  /\ IF hpc["client"] = "failed"
       THEN cpc' = "done" /\ cres' = "err" /\ UNCHANGED <<sourceSize, hh>>
       ELSE /\ sourceSize' = fileSize["client"]
            /\ hh' = [hh EXCEPT !["client"] = HashOfHashes("client")]
            /\ cpc' = "hashhash"
            /\ cres' = cres
  /\ UNCHANGED <<fileVars, hasherVars, serverVars, peer, diff, diffErr, sent, c2s>>

\* CompareHashHash receives the hash of hashes of the peer; on a match
\* ConnectToTarget returns nil.
ClientCompare ==
  /\ cpc = "hashhash"
  /\ hh["server"] # <<>>
  /\ IF hh["client"] = hh["server"]
       THEN cpc' = "done" /\ cres' = "ok"
       ELSE cpc' = "exchange" /\ cres' = cres
  /\ UNCHANGED <<fileVars, hasherVars, serverVars, hh, sourceSize, peer, diff, diffErr, sent, c2s>>

\* DeserializeHashes from the connection, then DiffHashes: an error of either
\* is returned, and so is nil on an empty diff.
ClientExchange ==
  /\ cpc = "exchange"
  /\ spc \in {"readSize", "blocks", "done"}
  /\ LET d == DeserializeHashes(s2c)
         r == DiffHashes(hashes["client"], fileSize["client"], blockSize["client"],
                         d.blockSize, d.hashes)
     IN /\ peer' = d
        /\ IF d.err # "nil"
             THEN cpc' = "done" /\ cres' = "err" /\ diff' = diff /\ diffErr' = diffErr
             ELSE /\ diffErr' = r.err
                  /\ diff' = r.diff
                  /\ IF r.err # "nil" THEN cpc' = "done" /\ cres' = "err"
                     ELSE IF r.diff = <<>> THEN cpc' = "done" /\ cres' = "ok"
                     ELSE cpc' = "write" /\ cres' = cres
  /\ UNCHANGED <<fileVars, hasherVars, serverVars, hh, sourceSize, sent, c2s>>

\* writeBlocksToServer, then the deferred writer.Close and conn.Close.
ClientWrite ==
  /\ cpc = "write"
  /\ LET w == writeBlocksToServer(sourceSize, diff, sfile, blockSize["client"])
         r == WriteAll(w.writes, wrFail.k, wrFail.err)
     IN /\ c2s' = r.out
        /\ wrErr' = r.err
        /\ sent' = IF r.err = "nil" THEN w.records ELSE <<>>
        /\ cres' = IF r.err = "nil" THEN "ok" ELSE "err"
  /\ cpc' = "done"
  /\ UNCHANGED <<sfile, tfile, tfile0, blockSize, rdErr, wrFail, hfault, punchErr, netVars, hasherVars, serverVars, hh,
                 sourceSize, peer, diff, diffErr>>

\* os.OpenFile(O_RDWR|O_CREATE), the hashing goroutine is started, net.Listen.
ServerStart ==
  /\ spc = "start"
  /\ spc' = "accept"
  /\ UNCHANGED <<fileVars, hasherVars, clientVars, hh, isDevice, prealloc, sres, s2c,
                 targetFileSize, rd, br, fops>>

\* The goroutine of StartServer calls b.hasher.HashFile(b.targetFile).
ServerHashFile ==
  /\ spc # "start"
  /\ HashFileEnter("server")
  /\ UNCHANGED <<fileVars, clientVars, serverVars, hh>>

\* listener.Accept.
ServerAccept ==
  /\ spc = "accept"
  /\ cpc # "start"
  /\ spc' = "ready"
  /\ UNCHANGED <<fileVars, hasherVars, clientVars, hh, isDevice, prealloc, sres, s2c,
                 targetFileSize, rd, br, fops>>

\* A server that does not wait for readyChan before CompareHashHash.
ServerReady_NoWait ==
  /\ spc = "ready"
  /\ targetFileSize' = fileSize["server"]
  /\ hh' = [hh EXCEPT !["server"] = HashOfHashes("server")]
  /\ spc' = "hashhash"
  /\ UNCHANGED <<fileVars, hasherVars, clientVars, isDevice, prealloc, sres, s2c, rd, br, fops>>

\* <-readyChan after the goroutine set b.targetFileSize, or logged the
\* error of HashFile and returned; CompareHashHash sends the hash of hashes.
ServerReady ==
  /\ spc = "ready"
  /\ hpc["server"] \in {"returned", "failed"}
  /\ targetFileSize' = IF hpc["server"] = "failed" THEN targetFileSize ELSE fileSize["server"]
  /\ hh' = [hh EXCEPT !["server"] = HashOfHashes("server")]
  /\ spc' = "hashhash"
  /\ UNCHANGED <<fileVars, hasherVars, clientVars, isDevice, prealloc, sres, s2c, rd, br, fops>>

\* CompareHashHash receives; on a match StartServer returns nil, otherwise
\* writeHashes serializes the hashes to the connection.
ServerCompare ==
  /\ spc = "hashhash"
  /\ hh["client"] # <<>>
  /\ IF hh["client"] = hh["server"]
       THEN spc' = "done" /\ sres' = "ok" /\ s2c' = s2c
       ELSE LET ser == SerializeHashes(blockSize["server"], hashes["server"]) IN
         /\ s2c' = ser.out
         /\ IF ser.err # "nil" THEN spc' = "done" /\ sres' = "err"
                               ELSE spc' = "readSize" /\ sres' = sres
  /\ UNCHANGED <<fileVars, hasherVars, clientVars, hh, isDevice, prealloc,
                 targetFileSize, rd, br, fops>>

RECURSIVE BlockLoop(_, _, _, _, _, _, _, _, _)
\* The loop of writeBlocksToFile run to its end on the bytes s, from the
\* reader b, the file f and the operations ops done so far.
BlockLoop(b, s, f, ops, tgtSize, bs, pre, device, e) ==
  LET n == Next(b, s, bs, e)
      a == ApplyRecord(n.br, f, tgtSize, bs, pre, device)
  IN IF n.err # "nil" THEN [err |-> "nil", file |-> f, ops |-> ops]
     ELSE IF a.err # "nil" THEN [err |-> a.err, file |-> a.file, ops |-> ops \o a.ops]
     ELSE IF n.cont
       THEN BlockLoop(n.br, n.rest, a.file, ops \o a.ops, tgtSize, bs, pre, device, e)
       ELSE [err |-> "nil", file |-> a.file, ops |-> ops \o a.ops]

\* writeBlocksToFile run to its end on the bytes s of a connection that
\* returns e past them: what it returns, the file and the operations on it.
writeBlocksToFile(s, f, tgtSize, bs, pre, device, e) ==
  LET r == ReadInt64Err(s, e)
      tgt == Max(tgtSize, r.val)
      t == truncateFileIfNeeded(f, r.val, tgt, device)
  IN IF r.err # "nil" THEN [err |-> handleReadError(r.err), file |-> f, ops |-> <<>>]
     ELSE IF t.err # "nil" THEN [err |-> t.err, file |-> t.file, ops |-> t.ops]
     ELSE BlockLoop(NewBlockReader(bs), r.rest, t.file, t.ops, tgt, bs, pre, device, e)

\* writeBlocksToFile up to its loop: the source size is read (the end of the
\* stream here makes it return nil), b.targetFileSize becomes the larger of
\* the two sizes, truncateFileIfNeeded.
ReadSourceSize ==
  /\ spc = "readSize"
  /\ cpc = "done"
  /\ LET r == ReadInt64Err(c2s, rdErr)
         tgt == Max(targetFileSize, r.val)
         t == truncateFileIfNeeded(tfile, r.val, tgt, isDevice)
     IN IF r.err # "nil"
          THEN /\ spc' = "done"
               /\ sres' = IF handleReadError(r.err) = "nil" THEN "ok" ELSE "err"
               /\ UNCHANGED <<tfile, targetFileSize, rd, br, fops>>
          ELSE /\ targetFileSize' = tgt
               /\ tfile' = t.file
               /\ fops' = fops \o t.ops
               /\ rd' = r.rest
               /\ br' = NewBlockReader(blockSize["server"])
               /\ IF t.err # "nil" THEN spc' = "done" /\ sres' = "err"
                                   ELSE spc' = "blocks" /\ sres' = sres
  /\ UNCHANGED <<sfile, tfile0, blockSize, ioVars, netVars, hasherVars, clientVars, hh, isDevice, prealloc, s2c>>

\* One turn of the loop of writeBlocksToFile: blockReader.Next, then the
\* record the reader holds is applied, also when Next returned cont = false;
\* after the last turn f.Sync and StartServer returns nil.
ReceiveBlock ==
  /\ spc = "blocks"
  /\ LET n == Next(br, rd, blockSize["server"], rdErr)
         a == ApplyRecord(n.br, tfile, targetFileSize, blockSize["server"], prealloc, isDevice)
     IN /\ br' = n.br
        /\ rd' = n.rest
        /\ IF n.err # "nil"
             THEN spc' = "done" /\ sres' = "ok" /\ UNCHANGED <<tfile, fops>>
             ELSE /\ tfile' = a.file
                  /\ fops' = fops \o a.ops
                  /\ IF a.err # "nil" THEN spc' = "done" /\ sres' = "err"
                     ELSE IF n.cont THEN spc' = spc /\ sres' = sres
                     ELSE spc' = "done" /\ sres' = "ok"
  /\ UNCHANGED <<sfile, tfile0, blockSize, ioVars, netVars, hasherVars, clientVars, hh, isDevice, prealloc,
                 s2c, targetFileSize>>

\* A step of either FileHasher.
Hashing(r) == HasherStep(r) /\ UNCHANGED <<fileVars, clientVars, serverVars, hh>>

(***************************************************************************)
(* The identifier-multiplex proxy (pkg/proxy): the proxy server with its   *)
(* workers, the connections made to its port, the sync servers it forks,   *)
(* and the proxy client in front of a sync source.                         *)
(***************************************************************************)
ProxyWorkers == 1..NumIds
Conns == 1..(2 * NumIds)

\* The k-th identifier declared on the proxy server's command line.
Identifier(k) == [i \in 1..identifierLength |-> k]

\* b.identifiers.
Identifiers == {Identifier(k) : k \in 1..NumIds}

\* "" as a file name and as a header.
NoFile == <<>>

\* os.Getenv in the proxy server's environment.  The variable of the first
\* identifier has the identifier as its name, the variable of every other
\* one has the name "id-" followed by the identifier.
Getenv(name) ==
  IF \E k \in 1..NumIds : name = [prefix |-> (k # 1), id |-> Identifier(k)]
    THEN <<name.id[1]>>
    ELSE NoFile

\* A header read that leaves the identifier in the stream.
getTargetFileFromIdentifier_Peek(s, e) ==
  LET r == ReadFullErr(s, identifierLength, e) IN
    [file |-> Getenv([prefix |-> r.data # Identifier(1), id |-> r.data]),
     header |-> r.data, err |-> r.err, rest |-> s]

\* getTargetFileFromIdentifier on a connection with the bytes s still to
\* come and the error e past them; rest is what it leaves unread.
getTargetFileFromIdentifier(s, e) ==
  LET r == ReadFullErr(s, identifierLength, e)
      plain == Getenv([prefix |-> FALSE, id |-> r.data])
      withId == Getenv([prefix |-> TRUE, id |-> r.data])
  IN IF r.err # "nil"
       THEN [file |-> NoFile, header |-> NoFile, err |-> r.err, rest |-> r.rest]
     ELSE IF plain # NoFile
       THEN [file |-> plain, header |-> r.data, err |-> "nil", rest |-> r.rest]
     ELSE IF withId # NoFile
       THEN [file |-> withId, header |-> r.data, err |-> "nil", rest |-> r.rest]
     ELSE [file |-> NoFile, header |-> NoFile, err |-> "no filepath", rest |-> r.rest]

\* A worker that ignores what the processing map says.
IsProcessing_Never(m, header) == FALSE

\* processing[header] > 0.
IsProcessing(m, header) == m[header] > 0

\* A connection nobody has dialled yet.
NoConn == [st |-> "none", up |-> <<>>, eof |-> FALSE, rst |-> FALSE, rd |-> 0, by |-> "none"]

\* A worker about to call listener.Accept.
IdleWorker == [pc |-> "accept", conn |-> 0, file |-> NoFile, header |-> NoFile]

\* The proxy client and the sync client's Connect before they are started.
IdleProxyClient ==
  [pc |-> "off", id |-> NoFile, conn |-> 0, src |-> <<>>, fwd |-> 0,
   retryCount |-> 0, attempts |-> 0]
IdleDial == [pc |-> "off", retryCount |-> 0, attempts |-> 0]

\* The proxy as ProxyServer.StartServer leaves it once the workers are
\* started, nobody having dialled.
NetInit ==
  /\ conns = [c \in Conns |-> NoConn]
  /\ processing = [h \in Identifiers \cup {NoFile} |-> 0]
  /\ wk = [i \in ProxyWorkers |-> IdleWorker]
  /\ backends = <<>>
  /\ pwg = NumIds
  /\ ppc = "running"
  /\ pcl = IdleProxyClient
  /\ dial = IdleDial

\* What is written to connection c and not yet read by the proxy server.
Unread(c) == SubSeq(conns[c].up, conns[c].rd + 1, Len(conns[c].up))

\* What a read of connection c returns past its last byte: io.EOF when the
\* dialler closed it, the error of a connection that was reset.
EndOf(c) == IF conns[c].rst THEN "ECONNRESET" ELSE "EOF"

\* net.Conn.Close by the proxy server, for the reason by.
CloseConn(cs, c, by) == [cs EXCEPT ![c].st = "closed", ![c].by = by]

\* The sync server forked for connection c, as an index of backends.
BackendOf(c) == CHOOSE j \in 1..Len(backends) :
                  /\ backends[j].conn = c
                  /\ \A k \in (j + 1)..Len(backends) : backends[k].conn # c

\* listener.Accept in processConnection: worker i takes any connection that
\* is waiting on the listener.
Accept(i) ==
  /\ ppc = "running"
  /\ wk[i].pc = "accept"
  /\ \E c \in Conns :
       /\ conns[c].st = "pending"
       /\ conns' = [conns EXCEPT ![c].st = "accepted"]
       /\ wk' = [wk EXCEPT ![i].pc = "header", ![i].conn = c]
  /\ UNCHANGED <<sfile, tfile, tfile0, blockSize, ioVars, hasherVars, clientVars,
                 serverVars, hh, processing, backends, pwg, ppc, pcl, dial>>

\* file, header, err := b.getTargetFileFromIdentifier(conn), and conn.Close()
\* when err is set; the worker goes on to the lock in both cases.
ReadIdentifier(i) ==
  LET c == wk[i].conn
      r == getTargetFileFromIdentifier(Unread(c), EndOf(c))
  IN /\ wk[i].pc = "header"
     /\ Len(Unread(c)) >= identifierLength \/ conns[c].eof
     /\ wk' = [wk EXCEPT ![i].pc = "lock", ![i].file = r.file, ![i].header = r.header]
     /\ conns' = IF r.err # "nil"
                   THEN [CloseConn(conns, c, "header") EXCEPT ![c].rd = Len(conns[c].up) - Len(r.rest)]
                   ELSE [conns EXCEPT ![c].rd = Len(conns[c].up) - Len(r.rest)]
     /\ UNCHANGED <<sfile, tfile, tfile0, blockSize, ioVars, hasherVars, clientVars,
                    serverVars, hh, processing, backends, pwg, ppc, pcl, dial>>

\* The check and the claim of the header under the mutex.
Claim(i) ==
  LET c == wk[i].conn IN
    /\ wk[i].pc = "lock"
    /\ IF IsProcessing(processing, wk[i].header)
         THEN /\ conns' = CloseConn(conns, c, "claim")
              /\ wk' = [wk EXCEPT ![i] = IdleWorker]
              /\ UNCHANGED processing
         ELSE /\ processing' = [processing EXCEPT ![wk[i].header] = i]
              /\ wk' = [wk EXCEPT ![i].pc = "fork"]
              /\ UNCHANGED conns
    /\ UNCHANGED <<sfile, tfile, tfile0, blockSize, ioVars, hasherVars, clientVars,
                   serverVars, hh, backends, pwg, ppc, pcl, dial>>

\* startsBlockrsyncServer up to go b.forkProcess(file, port): a sync server
\* is started on the worker's port.  It listens if it can open its file.
Fork(i) ==
  /\ wk[i].pc = "fork"
  /\ backends' = Append(backends, [file |-> wk[i].file, port |-> blockRsyncPort + i,
                                   conn |-> wk[i].conn, recv |-> <<>>, eof |-> FALSE])
  /\ wk' = [wk EXCEPT ![i].pc = "dial"]
  /\ UNCHANGED <<sfile, tfile, tfile0, blockSize, ioVars, hasherVars, clientVars,
                 serverVars, hh, conns, processing, pwg, ppc, pcl, dial>>

\* The loop around net.Dial("localhost:port"): it is left when the sync
\* server listens, and goes round after a second otherwise.
DialBackend(i) ==
  /\ wk[i].pc = "dial"
  /\ wk' = IF backends[BackendOf(wk[i].conn)].file # NoFile
             THEN [wk EXCEPT ![i].pc = "copy"]
             ELSE wk
  /\ UNCHANGED <<sfile, tfile, tfile0, blockSize, ioVars, hasherVars, clientVars,
                 serverVars, hh, conns, processing, backends, pwg, ppc, pcl, dial>>

\* io.Copy(blockRsyncConn, rw) and the return of startsBlockrsyncServer:
\* some of the unread bytes go to the sync server; at the end of the stream
\* the copy returns nil, rw is closed and the worker is done; on a
\* connection that is closed already, or that ends with an error, the copy
\* fails, rw is closed and the worker starts over.  blockRsyncConn is left
\* as it is on every path.
CopyUp(i) ==
  LET c == wk[i].conn
      j == BackendOf(c)
  IN /\ wk[i].pc = "copy"
     /\ IF conns[c].st = "closed"
          THEN /\ wk' = [wk EXCEPT ![i] = IdleWorker]
               /\ UNCHANGED <<conns, backends, pwg>>
        ELSE IF Unread(c) # <<>>
          THEN \E k \in 1..Len(Unread(c)) :
                 /\ backends' = [backends EXCEPT ![j].recv = @ \o SubSeq(Unread(c), 1, k)]
                 /\ conns' = [conns EXCEPT ![c].rd = @ + k]
                 /\ UNCHANGED <<wk, pwg>>
        ELSE IF conns[c].rst
          THEN /\ conns' = CloseConn(conns, c, "failed")
               /\ wk' = [wk EXCEPT ![i] = IdleWorker]
               /\ UNCHANGED <<backends, pwg>>
          ELSE /\ conns[c].eof
               /\ conns' = CloseConn(conns, c, "session")
               /\ pwg' = pwg - 1
               /\ wk' = [wk EXCEPT ![i].pc = "exited"]
               /\ UNCHANGED backends
     /\ UNCHANGED <<sfile, tfile, tfile0, blockSize, ioVars, hasherVars, clientVars,
                    serverVars, hh, processing, ppc, pcl, dial>>

\* b.wg.Wait() returns, StartServer returns nil and the proxy's main ends:
\* the process exits, which closes what it still holds open, the
\* connections to the sync servers among it.
ProxyReturn ==
  /\ ppc = "running"
  /\ pwg = 0
  /\ ppc' = "returned"
  /\ conns' = [c \in Conns |->
                 IF conns[c].st \in {"pending", "accepted"}
                   THEN [conns[c] EXCEPT !.st = "closed", !.by = "exit"]
                   ELSE conns[c]]
  /\ backends' = [j \in 1..Len(backends) |-> [backends[j] EXCEPT !.eof = TRUE]]
  /\ UNCHANGED <<sfile, tfile, tfile0, blockSize, ioVars, hasherVars, clientVars,
                 serverVars, hh, processing, wk, pwg, pcl, dial>>

\* The number of failed dials after which both dial loops give up.
GivesUp(retryCount) == retryCount > maxRetries

\* inConn, err := listener.Accept() in ProxyClient.ConnectToTarget: the
\* local sync source has connected.
PCAccept ==
  /\ pcl.pc = "listen"
  /\ pcl' = [pcl EXCEPT !.pc = "dial"]
  /\ UNCHANGED <<sfile, tfile, tfile0, blockSize, ioVars, hasherVars, clientVars,
                 serverVars, hh, conns, processing, wk, backends, pwg, ppc, dial>>

\* One round of the dial loop of ProxyClient.ConnectToTarget: the dial
\* succeeds when the proxy server listens; after a failed one retryCount is
\* raised, and then tested.
PCDial ==
  /\ pcl.pc = "dial"
  /\ IF ppc = "running" /\ \E c \in Conns : conns[c].st = "none"
       THEN LET c == MinOf({x \in Conns : conns[x].st = "none"}) IN
              /\ conns' = [conns EXCEPT ![c].st = "pending"]
              /\ pcl' = [pcl EXCEPT !.pc = "ident", !.conn = c, !.attempts = @ + 1]
       ELSE /\ pcl' = [pcl EXCEPT !.retryCount = @ + 1, !.attempts = @ + 1,
                                  !.pc = IF GivesUp(pcl.retryCount + 1) THEN "failed" ELSE "dial"]
            /\ UNCHANGED conns
  /\ UNCHANGED <<sfile, tfile, tfile0, blockSize, ioVars, hasherVars, clientVars,
                 serverVars, hh, processing, wk, backends, pwg, ppc, dial>>

\* outConn.Write([]byte(identifier)); on an error ConnectToTarget returns
\* and the deferred outConn.Close() runs.
PCWriteIdentifier ==
  LET c == pcl.conn IN
    /\ pcl.pc = "ident"
    /\ IF conns[c].st = "closed"
         THEN /\ pcl' = [pcl EXCEPT !.pc = "failed"]
              /\ conns' = [conns EXCEPT ![c].eof = TRUE]
         ELSE /\ pcl' = [pcl EXCEPT !.pc = "copy"]
              /\ conns' = [conns EXCEPT ![c].up = @ \o pcl.id]
    /\ UNCHANGED <<sfile, tfile, tfile0, blockSize, ioVars, hasherVars, clientVars,
                   serverVars, hh, processing, wk, backends, pwg, ppc, dial>>

\* io.Copy(outConn, inConn): the next bytes of the sync source are written
\* upstream; at the end of the source, or on a write error, ConnectToTarget
\* returns and the deferred outConn.Close() runs.
PCCopy ==
  LET c == pcl.conn IN
    /\ pcl.pc = "copy"
    /\ IF conns[c].st = "closed"
         THEN /\ pcl' = [pcl EXCEPT !.pc = "failed"]
              /\ conns' = [conns EXCEPT ![c].eof = TRUE]
       ELSE IF pcl.fwd < Len(pcl.src)
         THEN \E k \in 1..(Len(pcl.src) - pcl.fwd) :
                /\ conns' = [conns EXCEPT ![c].up = @ \o SubSeq(pcl.src, pcl.fwd + 1, pcl.fwd + k)]
                /\ pcl' = [pcl EXCEPT !.fwd = @ + k]
         ELSE /\ pcl' = [pcl EXCEPT !.pc = "done"]
              /\ conns' = [conns EXCEPT ![c].eof = TRUE]
    /\ UNCHANGED <<sfile, tfile, tfile0, blockSize, ioVars, hasherVars, clientVars,
                   serverVars, hh, processing, wk, backends, pwg, ppc, dial>>

\* One round of the loop of NetworkConnectionProvider.Connect: the dial
\* succeeds when the sync server listens; after a failed one retryCount is
\* tested, and then raised.
Connect ==
  /\ dial.pc = "dial"
  /\ dial' = IF spc # "start"
               THEN [dial EXCEPT !.pc = "connected", !.attempts = @ + 1]
             ELSE IF GivesUp(dial.retryCount)
               THEN [dial EXCEPT !.pc = "failed", !.attempts = @ + 1]
               ELSE [dial EXCEPT !.retryCount = @ + 1, !.attempts = @ + 1]
  /\ UNCHANGED <<sfile, tfile, tfile0, blockSize, ioVars, hasherVars, clientVars,
                 serverVars, hh, conns, processing, wk, backends, pwg, ppc, pcl>>

(***************************************************************************)
(* SpecHash: one FileHasher hashes a file, then serializes its hashes and  *)
(* reads them back (hasher_test.go, "should serialize and deserialize      *)
(* hashes").                                                               *)
(***************************************************************************)
\* The files hashed: of every length up to MaxHashLen, the blocks counting up
\* in binary from c, so that neighbouring blocks differ.
HashInput(n, c) ==
  [i \in 1..n |-> LET j == (((i - 1) \div 2) + c) % 4
                  IN IF i % 2 = 1 THEN j \div 2 ELSE j % 2]
HashInputs == {HashInput(n, c) : n \in 0..MaxHashLen, c \in 0..3}

InitHash ==
  /\ wrFail = NoWriteFault
  /\ wrErr = "unset"
  /\ rdErr = "EOF"
  /\ NetInit
  /\ hfault = NoHashFault
  /\ punchErr = "nil"
  /\ sfile \in HashInputs
  /\ tfile = <<>>
  /\ tfile0 = tfile
  /\ blockSize = [r \in Roles |-> BlockSize]
  /\ isDevice = FALSE
  /\ prealloc = FALSE
  /\ HasherInit
  /\ ProtocolInit

\* SerializeHashes into a buffer, DeserializeHashes from it.
SerializeRoundTrip ==
  /\ hpc["client"] = "returned"
  /\ peer = NoPeer
  /\ s2c' = SerializeHashes(blockSize["client"], hashes["client"]).out
  /\ peer' = DeserializeHashes(s2c')
  /\ UNCHANGED <<fileVars, hasherVars, hh, cpc, cres, sourceSize, diff, diffErr, sent, c2s,
                 isDevice, prealloc, spc, sres, targetFileSize, rd, br, fops>>

\* hasher.HashFile(fileName) is called.
HashFileCall ==
  /\ HashFileEnter("client")
  /\ UNCHANGED <<fileVars, clientVars, serverVars, hh>>

NextHash ==
  \/ HashFileCall
  \/ Hashing("client")
  \/ SerializeRoundTrip

SpecHash == InitHash /\ [][NextHash]_vars

(***************************************************************************)
(* SpecSync: one sync of a source file to a regular target file, without   *)
(* preallocation, the server started with the block size of the client or  *)
(* with another.                                                           *)
(***************************************************************************)
SyncInit(faults) ==
  /\ wrFail = NoWriteFault
  /\ wrErr = "unset"
  /\ rdErr = "EOF"
  /\ NetInit
  /\ hfault \in faults
  /\ punchErr = "nil"
  /\ sfile \in Files(MaxSyncLen)
  /\ tfile \in Files(MaxSyncLen)
  /\ tfile0 = tfile
  /\ blockSize \in {[r \in Roles |-> IF r = "client" THEN BlockSize ELSE b] :
                      b \in {BlockSize, AltBlockSize}}
  /\ isDevice = FALSE
  /\ prealloc = FALSE
  /\ HasherInit
  /\ ProtocolInit

InitSync == SyncInit({NoHashFault})

NextSync ==
  \/ ClientConnect
  \/ ClientHashFile
  \/ ClientHashed
  \/ ClientCompare
  \/ ClientExchange
  \/ ClientWrite
  \/ ServerStart
  \/ ServerHashFile
  \/ ServerAccept
  \/ ServerReady
  \/ ServerCompare
  \/ ReadSourceSize
  \/ ReceiveBlock
  \/ Hashing("client")
  \/ Hashing("server")

SpecSync == InitSync /\ [][NextSync]_vars

Synced == cres = "ok" /\ sres = "ok"
SameBlockSize == blockSize["server"] = blockSize["client"]

\* C1: after a sync in which ConnectToTarget and StartServer both returned
\* nil, the target holds the bytes of the source at every position below the
\* length of the source.
C1_Convergence ==
  Synced => \A i \in 1..Len(sfile) : i <= Len(tfile) /\ tfile[i] = sfile[i]

\* C2: after a successful sync onto a regular target file that was longer
\* than the source, the target is as long as the source.
C2_OversizeTruncated ==
  (Synced /\ ~isDevice /\ Len(tfile0) > Len(sfile)) => Len(tfile) = Len(sfile)

\* C3: when source and target are byte-identical, the hashes of hashes match,
\* both peers return nil, no hash map and no block record is written to the
\* connection, and the target is not truncated, written or hole-punched.
C3_Idempotence ==
  (sfile = tfile0 /\ SameBlockSize /\ cpc = "done" /\ spc = "done") =>
    /\ hh["client"] = hh["server"]
    /\ Synced
    /\ s2c = <<>>
    /\ c2s = <<>>
    /\ fops = <<>>
    /\ tfile = tfile0

\* C7: DiffHashes returns an error and no offsets when the block size of the
\* peer differs from the local one; in a sync whose target was started with
\* another block size ConnectToTarget returns an error and the target file is
\* never truncated, written or hole-punched.
C7_BlockSizeMismatch ==
  /\ (diffErr # "unset" /\ peer.blockSize # blockSize["client"]) =>
       (diffErr = "block size mismatch" /\ diff = <<>>)
  /\ ~SameBlockSize =>
       /\ fops = <<>>
       /\ tfile = tfile0
       /\ c2s = <<>>
       /\ cpc = "done" => cres = "err"

\* A sync with another block size on the target in which DiffHashes was
\* called, failed, and both peers have returned.
C7_Witness ==
  /\ ~SameBlockSize
  /\ diffErr = "block size mismatch"
  /\ sfile # <<>>
  /\ tfile0 # <<>>
  /\ cpc = "done"
  /\ spc = "done"

\* C5: when HashFile returns, the hash map has exactly one entry, the digest
\* of the block, for each block offset 0, B, 2B, ... below the size of the
\* file, and the size returned is the size of the file.
C5_HashFileComplete ==
  hpc["client"] = "returned" =>
    /\ fileSize["client"] = Len(sfile)
    /\ DOMAIN hashes["client"] = BlockOffsets(Len(sfile), blockSize["client"])
    /\ \A k \in DOMAIN hashes["client"] :
         hashes["client"][k] = Blake2b512(ReadAt(sfile, k, blockSize["client"]))

\* C6: the hash map HashFile produced, serialized and deserialized, comes
\* back without an error as the same block size and the same map, and its
\* serialized form is 16 + 72 * |H| bytes long.
C6_SerializeRoundTrip ==
  peer # NoPeer =>
    /\ peer.err = "nil"
    /\ peer.blockSize = blockSize["client"]
    /\ peer.hashes = hashes["client"]
    /\ Len(s2c) = 16 + 72 * Cardinality(DOMAIN hashes["client"])

(***************************************************************************)
(* SpecDiff: DiffHashes of a FileHasher that holds hashes of a file of a   *)
(* given size, against a peer's block size and hash map; the two "range"   *)
(* loops visit the keys in any order.                                      *)
(***************************************************************************)
Perms(S) == {p \in [1..Cardinality(S) -> S] : Range(p) = S}
DiffDigests == {Blake2b512(<<0, 0>>), Blake2b512(<<0, 1>>)}
HashMaps(keys) == UNION {[K -> DiffDigests] : K \in SUBSET keys}

\* The inputs of DiffHashes: a hasher with any hashes of a file of up to
\* MaxDiffSize bytes, and one of peers as what DeserializeHashes returned.
DiffInit(peers) ==
  /\ wrFail = NoWriteFault
  /\ wrErr = "unset"
  /\ rdErr = "EOF"
  /\ NetInit
  /\ hfault = NoHashFault
  /\ punchErr = "nil"
  /\ sfile = <<>>
  /\ tfile = <<>>
  /\ tfile0 = <<>>
  /\ blockSize = [r \in Roles |-> BlockSize]
  /\ isDevice = FALSE
  /\ prealloc = FALSE
  /\ hpc = [r \in Roles |-> "idle"]
  /\ \E size \in 0..MaxDiffSize :
       /\ fileSize = [r \in Roles |-> IF r = "client" THEN size ELSE 0]
       /\ \E local \in HashMaps(BlockOffsets(size, BlockSize)) :
            hashes = [r \in Roles |-> IF r = "client" THEN local ELSE EmptyMap]
  /\ queue = [r \in Roles |-> <<>>]
  /\ qclosed = [r \in Roles |-> FALSE]
  /\ res = [r \in Roles |-> <<>>]
  /\ nextOff = [r \in Roles |-> 0]
  /\ wgCount = [r \in Roles |-> 0]
  /\ waiter = [r \in Roles |-> "idle"]
  /\ hlog = [r \in Roles |-> {}]
  /\ spawned = [r \in Roles |-> 0]
  /\ workers = [r \in Roles |-> NewWorkers]
  /\ cpc = "exchange"
  /\ cres = "running"
  /\ spc = "readSize"
  /\ sres = "running"
  /\ hh = [r \in Roles |-> <<>>]
  /\ s2c = <<>>
  /\ c2s = <<>>
  /\ sourceSize = fileSize["client"]
  /\ peer \in peers
  /\ diff = <<>>
  /\ diffErr = "unset"
  /\ sent = <<>>
  /\ targetFileSize = 0
  /\ rd = <<>>
  /\ br = NewBlockReader(BlockSize)
  /\ fops = <<>>

InitDiff ==
  DiffInit({[err |-> "nil", blockSize |-> pbs, hashes |-> cmpHash] :
              pbs \in {BlockSize, AltBlockSize},
              cmpHash \in HashMaps(BlockOffsets(MaxDiffSize + BlockSize, BlockSize))})

\* b.hasher.DiffHashes(blockSize, targetHashes).
DiffHashesCall ==
  /\ diffErr = "unset"
  /\ \E ord1 \in Perms(DOMAIN hashes["client"]), ord2 \in Perms(DOMAIN peer.hashes) :
       LET r == DiffHashesIn(hashes["client"], fileSize["client"], blockSize["client"],
                             peer.blockSize, peer.hashes, ord1, ord2)
       IN diffErr' = r.err /\ diff' = r.diff
  /\ UNCHANGED <<fileVars, hasherVars, serverVars, hh, cpc, cres, sourceSize, peer, sent, c2s>>

NextDiff == DiffHashesCall

SpecDiff == InitDiff /\ [][NextDiff]_vars

\* C4: DiffHashes against a peer map over the same block size returns, as a
\* set, the local keys absent from the peer map or with another digest
\* there, and the peer keys absent locally and below the file size; no
\* peer key at or beyond the file size is returned.
C4_DiffCorrect ==
  (diffErr # "unset" /\ peer.blockSize = blockSize["client"]) =>
    LET local == hashes["client"]
        other == peer.hashes
    IN /\ diffErr = "nil"
       /\ Range(diff) =
            {k \in DOMAIN local : k \notin DOMAIN other \/ local[k] # other[k]}
            \cup {k \in (DOMAIN other) \ (DOMAIN local) : k < fileSize["client"]}
       /\ \A k \in Range(diff) : k < fileSize["client"]

\* DiffHashes has returned a diff that holds a local key with another digest
\* at the peer, a peer key absent locally, and left out a peer key beyond
\* the size of the file.
C4_Witness ==
  /\ diffErr = "nil"
  /\ \E k \in Range(diff) :
       k \in DOMAIN hashes["client"] /\ k \in DOMAIN peer.hashes
  /\ \E k \in Range(diff) : k \notin DOMAIN hashes["client"]
  /\ \E k \in DOMAIN peer.hashes : k >= fileSize["client"]

(***************************************************************************)
(* SpecWrite: writeBlocksToServer with the offsets of a diff, in any       *)
(* order, over a source file (client_test.go).                             *)
(***************************************************************************)
InitWrite ==
  /\ wrErr = "unset"
  /\ rdErr = "EOF"
  /\ NetInit
  /\ hfault = NoHashFault
  /\ punchErr = "nil"
  /\ sfile \in Files(MaxWriteLen)
  /\ tfile = <<>>
  /\ tfile0 = <<>>
  /\ blockSize = [r \in Roles |-> BlockSize]
  /\ isDevice = FALSE
  /\ prealloc = FALSE
  /\ HasherInit
  /\ cpc = "write"
  /\ cres = "running"
  /\ spc = "readSize"
  /\ sres = "running"
  /\ hh = [r \in Roles |-> <<>>]
  /\ s2c = <<>>
  /\ c2s = <<>>
  /\ sourceSize = Len(sfile)
  /\ peer = NoPeer
  /\ \E K \in (SUBSET BlockOffsets(Len(sfile), BlockSize)) \ {{}} : diff \in Perms(K)
  /\ \E k \in 0..Len(writeBlocksToServer(sourceSize, diff, sfile, BlockSize).writes) :
       wrFail = IF k = 0 THEN NoWriteFault ELSE [k |-> k, err |-> "EPIPE"]
  /\ diffErr = "nil"
  /\ sent = <<>>
  /\ targetFileSize = 0
  /\ rd = <<>>
  /\ br = NewBlockReader(BlockSize)
  /\ fops = <<>>

NextWrite == ClientWrite

SpecWrite == InitWrite /\ [][NextWrite]_vars

\* The block of the source at an offset, and whether bytes are all zero.
SourceBlock(offset) == ReadAt(sfile, offset, blockSize["client"])
IsZero(bytes) == \A j \in DOMAIN bytes : bytes[j] = 0
Written == cpc = "done" /\ cres = "ok" /\ sent # <<>>

\* C8: for every offset of the diff whose source block, full or short, holds
\* only zero bytes, writeBlocksToServer writes the record (offset, HOLE)
\* without payload, whatever it wrote before.
C8_HoleEmission ==
  Written =>
    /\ {sent[i].offset : i \in DOMAIN sent} = Range(diff)
    /\ \A i \in DOMAIN sent :
         IsZero(SourceBlock(sent[i].offset)) =>
           (sent[i].kind = Hole /\ sent[i].payload = <<>>)

\* C9: for every offset of the diff whose source block holds a non-zero
\* byte, writeBlocksToServer writes the offset, the kind BLOCK and the
\* n = min(B, length - offset) bytes of the source at the offset, and
\* nothing else for the record.
C9_BlockEmission ==
  Written =>
    /\ Len(sent) = Len(diff)
    /\ {sent[i].offset : i \in DOMAIN sent} = Range(diff)
    /\ \A i \in DOMAIN sent :
         ~IsZero(SourceBlock(sent[i].offset)) =>
           /\ sent[i].kind = Block
           /\ sent[i].payload = SourceBlock(sent[i].offset)
           /\ Len(sent[i].payload) = Min(blockSize["client"], Len(sfile) - sent[i].offset)
    /\ c2s = PutInt64(Len(sfile)) \o
             Flatten([i \in DOMAIN sent |->
                        PutInt64(sent[i].offset) \o <<sent[i].kind>> \o sent[i].payload])

\* Blocks have been written, a full one and after it a short final one.
C9_Witness ==
  /\ Written
  /\ \E i, j \in DOMAIN sent :
       /\ i < j
       /\ sent[i].kind = Block /\ Len(sent[i].payload) = blockSize["client"]
       /\ sent[j].kind = Block /\ Len(sent[j].payload) < blockSize["client"]
       /\ ~IsZero(SourceBlock(sent[i].offset))
       /\ ~IsZero(SourceBlock(sent[j].offset))

(***************************************************************************)
(* SpecRecv: writeBlocksToFile of the server on a stream that the client   *)
(* wrote for some source file and diff and that ends at any byte, the      *)
(* connection being closed there; the target a regular file or a device,   *)
(* with or without preallocation.                                          *)
(***************************************************************************)
\* What a read of the connection returns past its last byte: io.EOF when the
\* client closed it, io.ErrUnexpectedEOF of the snappy reader when the stream
\* is cut inside a chunk, or the error of a broken connection.
ConnErrs == {"EOF", "ErrUnexpectedEOF", "ECONNRESET"}

\* The target files: of every length up to one past the longest source, no
\* byte zero, so that zeros written and holes punched show.
TargetFiles == {[i \in 1..n |-> 1] : n \in 0..(MaxRecvLen + 1)}

\* The bytes on the connection of a source that writes its size and then
\* the records recs in their order.
StreamOf(size, recs) ==
  PutInt64(size) \o Flatten(Flatten([i \in 1..Len(recs) |-> RecordWrites(recs[i])]))

\* The inputs of a reception: the connection ends with one of errs,
\* fallocate returns punch, and the peer has written one of kinds as the
\* kind byte of its first record (a negative one: the kind byte that
\* writeBlocksToServer writes); the source file is one of srcs, and the
\* records of the diff were transmitted in ascending order, or in any order
\* when sorted is FALSE.
RecvInit(errs, punch, kinds, srcs, sorted) ==
  /\ wrFail = NoWriteFault
  /\ wrErr = "unset"
  /\ rdErr \in errs
  /\ NetInit
  /\ hfault = NoHashFault
  /\ punchErr = punch
  /\ sfile \in srcs
  /\ tfile \in TargetFiles
  /\ tfile0 = tfile
  /\ blockSize = [r \in Roles |-> BlockSize]
  /\ isDevice \in BOOLEAN
  /\ prealloc \in BOOLEAN
  /\ HasherInit
  /\ cpc = "done"
  /\ cres = "ok"
  /\ spc = "readSize"
  /\ sres = "running"
  /\ hh = [r \in Roles |-> <<>>]
  /\ s2c = <<>>
  /\ sourceSize = Len(sfile)
  /\ peer = NoPeer
  /\ \E K \in (SUBSET BlockOffsets(Len(sfile), BlockSize)) \ {{}} : diff = SortedSeq(K)
  /\ diffErr = "nil"
  /\ LET w == writeBlocksToServer(sourceSize, diff, sfile, BlockSize) IN
       /\ sent \in IF sorted THEN {w.records} ELSE Perms(Range(w.records))
       /\ \E cut \in 0..Len(StreamOf(sourceSize, sent)), k \in kinds :
            c2s = SubSeq(IF k < 0 THEN StreamOf(sourceSize, sent)
                         ELSE [StreamOf(sourceSize, sent) EXCEPT ![2 * Int64Len + 1] = k], 1, cut)
  /\ targetFileSize = Len(tfile)
  /\ rd = <<>>
  /\ br = NewBlockReader(BlockSize)
  /\ fops = <<>>

InitRecv == RecvInit(ConnErrs, "nil", {0 - 1}, Files(MaxRecvLen), TRUE)

NextRecv ==
  \/ ReadSourceSize
  \/ ReceiveBlock

SpecRecv == InitRecv /\ [][NextRecv]_vars

\* The stream still to be read holds an offset, the kind BLOCK and then
\* fewer payload bytes than a block, which the target has room for.
EndsInsidePayload ==
  /\ spc = "blocks"
  /\ rdErr = "EOF"
  /\ Len(rd) >= Int64Len + 1
  /\ rd[Int64Len + 1] = Block
  /\ Len(rd) - (Int64Len + 1) < blockSize["server"]
  /\ isDevice => GetInt64(SubSeq(rd, 1, Int64Len)) + Len(rd) - (Int64Len + 1) <= Len(tfile)

\* C10: when the stream ends inside the payload of a BLOCK record after
\* n < B payload bytes, Next returns (false, nil) with Offset() the offset of
\* the record and Block() those n bytes, and the server writes those n bytes
\* at that offset, nothing else, and returns nil.
C10_Step ==
  EndsInsidePayload =>
    LET offset == GetInt64(SubSeq(rd, 1, Int64Len))
        data == SubSeq(rd, Int64Len + 2, Len(rd))
        nx == Next(br, rd, blockSize["server"], rdErr)
    IN /\ nx.cont = FALSE /\ nx.err = "nil"
       /\ br' = nx.br
       /\ br'.offset = offset /\ br'.offsetType = Block /\ br'.buf = data
       /\ fops' = fops \o <<[op |-> "write", off |-> offset, len |-> Len(data)]>>
       /\ ReadAt(tfile', offset, Len(data)) = data
       /\ \A i \in 1..Len(tfile) :
            (i <= offset \/ i > offset + Len(data)) => tfile'[i] = tfile[i]
       /\ Len(tfile') = IF data = <<>> THEN Len(tfile)
                        ELSE Max(Len(tfile), offset + Len(data))
       /\ spc' = "done" /\ sres' = "ok"
C10_FramingRobustness == [][C10_Step]_vars

\* The server has returned nil after a last record of kind BLOCK whose
\* payload the end of the stream cut to one byte, which it wrote.
C10_Witness ==
  /\ spc = "done" /\ sres = "ok" /\ rd = <<>>
  /\ br.offsetType = Block
  /\ Len(br.buf) > 0 /\ Len(br.buf) < blockSize["server"]
  /\ fops # <<>>
  /\ fops[Len(fops)] = [op |-> "write", off |-> br.offset, len |-> Len(br.buf)]
  /\ ReadAt(tfile, br.offset, Len(br.buf)) = br.buf

\* The stream still to be read ends inside the offset field of a record or
\* right after it, before the kind byte.
PartialRecord ==
  /\ spc = "blocks"
  /\ rdErr = "EOF"
  /\ Len(rd) > 0
  /\ Len(rd) <= Int64Len

\* C11: when the stream ends after the offset field of a record, or inside
\* it, before the kind byte, the server finishes successfully and the
\* partial record is discarded: nothing is written or punched at its offset,
\* with no kind or payload of an earlier record.
C11_Step ==
  PartialRecord =>
    /\ spc' = "done" /\ sres' = "ok"
    /\ Len(rd) = Int64Len =>
         /\ \A i \in (Len(fops) + 1)..Len(fops') : fops'[i].off # GetInt64(rd)
         /\ tfile' = tfile
C11_PartialRecordDiscarded == [][C11_Step]_vars

\* The bytes s start with a whole record: offset, kind, and for a kind
\* other than HOLE a payload of one block.
CompleteRecord(s, bs) ==
  /\ Len(s) >= Int64Len + 1
  /\ s[Int64Len + 1] = Hole \/ Len(s) >= Int64Len + 1 + bs

\* C12: Next returns (true, nil) only after a whole record was read, (false,
\* nil) when EOF or unexpected EOF occurs while reading a field, and (false,
\* err) with the error itself for any other read error; a HOLE record is
\* decoded without consuming payload bytes.
C12_ErrorClassification ==
  spc = "blocks" =>
    LET bs == blockSize["server"]
        nx == Next(br, rd, bs, rdErr)
        whole == CompleteRecord(rd, bs)
    IN /\ nx.cont <=> whole
       /\ nx.cont => nx.err = "nil"
       /\ (~whole /\ rdErr \in {"EOF", "ErrUnexpectedEOF"}) => nx.err = "nil"
       /\ (~whole /\ rdErr \notin {"EOF", "ErrUnexpectedEOF"}) => nx.err = rdErr
       /\ (whole /\ rd[Int64Len + 1] = Hole) =>
            /\ nx.rest = SubSeq(rd, Int64Len + 2, Len(rd))
            /\ nx.br.offset = GetInt64(SubSeq(rd, 1, Int64Len))
            /\ nx.br.offsetType = Hole

\* A HOLE record has been decoded and applied, and the connection breaks
\* inside the payload of the BLOCK record that follows.
C12_Witness ==
  /\ spc = "blocks"
  /\ rdErr = "ECONNRESET"
  /\ br.offsetType = Hole
  /\ \E i \in DOMAIN fops : fops[i].op = "punch"
  /\ Len(rd) > Int64Len + 1
  /\ rd[Int64Len + 1] = Block
  /\ ~CompleteRecord(rd, blockSize["server"])

\* C13: if the k-th write to the connection fails, be it the source size, an
\* offset, a kind byte or a payload, writeBlocksToServer returns the error
\* of that write at once and makes no further write: the writer has taken
\* the k - 1 writes before it and nothing after.
C13_WriteErrorAborts ==
  (cpc = "done" /\ wrErr # "unset") =>
    LET ws == writeBlocksToServer(sourceSize, diff, sfile, blockSize["client"]).writes IN
      IF wrFail.k \in 1..Len(ws)
        THEN /\ wrErr = wrFail.err
             /\ cres = "err"
             /\ c2s = Flatten(SubSeq(ws, 1, wrFail.k - 1))
        ELSE /\ wrErr = "nil"
             /\ cres = "ok"
             /\ c2s = Flatten(ws)

\* The write of the payload of the first record has failed, with a second
\* record still to write.
C13_Witness ==
  /\ cpc = "done"
  /\ wrFail.k = 4
  /\ wrErr = "EPIPE"
  /\ Len(diff) >= 2
  /\ Len(c2s) = 2 * Int64Len + 1
  /\ c2s[2 * Int64Len + 1] = Block


(***************************************************************************)
(* SpecProxy: the proxy server with NumIds identifiers and workers, and    *)
(* 2 * NumIds connections waiting on its listener.  Every connection       *)
(* carries a declared identifier, an identifier without a variable in the  *)
(* environment, or fewer bytes than an identifier, and then one byte of    *)
(* sync traffic, and is closed by its peer after that.                     *)
(***************************************************************************)
\* Neither sync program runs: no file, no hasher, no sync connection.
SyncIdle ==
  /\ wrFail = NoWriteFault
  /\ hfault = NoHashFault
  /\ punchErr = "nil"
  /\ wrErr = "unset"
  /\ rdErr = "EOF"
  /\ sfile = <<>>
  /\ tfile = <<>>
  /\ tfile0 = <<>>
  /\ blockSize = [r \in Roles |-> BlockSize]
  /\ isDevice = FALSE
  /\ prealloc = FALSE
  /\ hpc = [r \in Roles |-> "idle"]
  /\ fileSize = [r \in Roles |-> 0]
  /\ hashes = [r \in Roles |-> EmptyMap]
  /\ queue = [r \in Roles |-> <<>>]
  /\ qclosed = [r \in Roles |-> FALSE]
  /\ res = [r \in Roles |-> <<>>]
  /\ nextOff = [r \in Roles |-> 0]
  /\ wgCount = [r \in Roles |-> 0]
  /\ waiter = [r \in Roles |-> "idle"]
  /\ hlog = [r \in Roles |-> {}]
  /\ spawned = [r \in Roles |-> 0]
  /\ workers = [r \in Roles |-> NewWorkers]
  /\ ProtocolInit

\* What a dialler may send first: a declared identifier, 32 bytes that name
\* no variable, or 3 bytes only.
Headers == Identifiers \cup {Identifier(0), <<0, 0, 0>>}

\* The dialler of connection c has sent h and one byte, and has closed.
Dialled(c, h) ==
  [st |-> "pending", up |-> h \o <<c>>, eof |-> TRUE, rst |-> FALSE, rd |-> 0, by |-> "none"]

\* The proxy server with a dialler on every connection, which has sent one
\* of heads and one byte; the diallers of one of the sets in resets were
\* reset after that, the others have closed.
ProxyInit(heads, resets) ==
  /\ SyncIdle
  /\ \E h \in [Conns -> heads], R \in resets :
       conns = [c \in Conns |-> [Dialled(c, h[c]) EXCEPT !.rst = (c \in R)]]
  /\ processing = [h \in Identifiers \cup {NoFile} |-> 0]
  /\ wk = [i \in ProxyWorkers |-> IdleWorker]
  /\ backends = <<>>
  /\ pwg = NumIds
  /\ ppc = "running"
  /\ pcl = IdleProxyClient
  /\ dial = IdleDial

InitProxy == ProxyInit(Headers, {{}})

processConnection(i) ==
  \/ Accept(i)
  \/ ReadIdentifier(i)
  \/ Claim(i)
  \/ Fork(i)
  \/ DialBackend(i)
  \/ CopyUp(i)

NextProxy ==
  \/ \E i \in ProxyWorkers : processConnection(i)
  \/ ProxyReturn

SpecProxy == InitProxy /\ [][NextProxy]_vars


\* Connection c was opened with the identifier id as its first bytes.
Carries(c, id) ==
  /\ Len(conns[c].up) >= identifierLength
  /\ SubSeq(conns[c].up, 1, identifierLength) = id

\* Every declared identifier was sent by exactly two of the diallers.
TwoPerIdentifier ==
  \A id \in Identifiers : Cardinality({c \in Conns : Carries(c, id)}) = 2

\* The connections a sync server was forked for.
Dispatched == {backends[j].conn : j \in 1..Len(backends)}

\* C14 (proxy exclusivity): with NumIds identifiers, NumIds workers and two
\* diallers per identifier, at no time has more than one sync server been
\* forked for an identifier or for a connection; the proxy server is never
\* stuck before StartServer returns; and when it has returned, exactly
\* NumIds sessions were dispatched, one per identifier, and the other
\* NumIds connections are closed with no sync server forked for them.
C14_ProxyExclusivity ==
  TwoPerIdentifier =>
    /\ \A id \in Identifiers :
         Cardinality({j \in 1..Len(backends) : Carries(backends[j].conn, id)}) <= 1
    /\ Cardinality(Dispatched) = Len(backends)
    /\ ppc = "running" => ENABLED NextProxy
    /\ ppc = "returned" =>
         /\ Len(backends) = NumIds
         /\ \A id \in Identifiers : \E c \in Dispatched : Carries(c, id)
         /\ Cardinality(Conns \ Dispatched) = NumIds
         /\ \A c \in Conns \ Dispatched :
              conns[c].st = "closed" /\ conns[c].by \in {"claim", "exit"}
         /\ \A c \in Dispatched : conns[c].by = "session"

\* StartServer has returned after a worker turned one connection away under
\* the mutex and another connection was never accepted.
C14_Witness ==
  /\ TwoPerIdentifier
  /\ ppc = "returned"
  /\ \E c \in Conns : conns[c].by = "claim"
  /\ \E c \in Conns : conns[c].by = "exit"


\* C15 (unresolvable identifier rejected): a connection whose identifier
\* could not be read in full or names no variable of the environment is
\* closed, and then no entry of the processing map is made for it, no sync
\* server is forked for it, and the worker that read it holds it no longer:
\* it is back at Accept.
C15_UnresolvableRejected ==
  /\ processing[NoFile] = 0
  /\ \A j \in 1..Len(backends) : conns[backends[j].conn].by # "header"
  /\ \A i \in ProxyWorkers : wk[i].conn = 0 \/ conns[wk[i].conn].by # "header"


(***************************************************************************)
(* SpecHandshake: one proxy client in front of a sync source that sends up *)
(* to MaxFwdLen bytes, and the proxy server it dials.                      *)
(***************************************************************************)
InitHandshake ==
  /\ SyncIdle
  /\ conns = [c \in Conns |-> NoConn]
  /\ processing = [h \in Identifiers \cup {NoFile} |-> 0]
  /\ wk = [i \in ProxyWorkers |-> IdleWorker]
  /\ backends = <<>>
  /\ pwg = NumIds
  /\ ppc = "running"
  /\ \E id \in Identifiers, src \in Files(MaxFwdLen) :
       pcl = [IdleProxyClient EXCEPT !.pc = "listen", !.id = id, !.src = src]
  /\ dial = IdleDial

ConnectToTarget == PCAccept \/ PCDial \/ PCWriteIdentifier \/ PCCopy

NextHandshake ==
  \/ ConnectToTarget
  \/ \E i \in ProxyWorkers : processConnection(i)

SpecHandshake == InitHandshake /\ [][NextHandshake]_vars

\* The bytes of later that come after the bytes of earlier, when later
\* starts with them.
Extends(later, earlier) ==
  /\ Len(later) >= Len(earlier)
  /\ SubSeq(later, 1, Len(earlier)) = earlier

\* C16 (proxy handshake ordering): what the proxy client has written
\* upstream is always the identifier followed by the bytes of the sync
\* source forwarded so far, or nothing; nothing is written in one step
\* before the identifier is; the proxy server's header read takes exactly the
\* identifier; and what the sync server has received is always the first
\* bytes of the source, all of them once the worker is done.
C16_Step ==
  LET c == pcl.conn IN
    /\ c # 0 =>
         /\ conns[c].up \in {<<>>, pcl.id \o SubSeq(pcl.src, 1, pcl.fwd)}
         /\ conns[c].up = <<>> => pcl.fwd = 0
         /\ (conns[c].up = <<>> /\ conns'[c].up # <<>>) => conns'[c].up = pcl.id
    /\ \A i \in ProxyWorkers :
         (wk[i].pc = "header" /\ wk'[i].pc = "lock") =>
           /\ wk'[i].header = pcl.id
           /\ conns'[wk[i].conn].rd = identifierLength
    /\ \A j \in 1..Len(backends') :
         /\ Extends(pcl.src, backends'[j].recv)
         /\ j <= Len(backends) => Extends(backends'[j].recv, backends[j].recv)
         /\ backends'[j].recv = SubSeq(conns'[c].up, identifierLength + 1, conns'[c].rd)
    /\ \A i \in ProxyWorkers :
         wk'[i].pc = "exited" => backends'[BackendOf(wk[i].conn)].recv = pcl.src

C16_HandshakeOrdering == [][C16_Step]_vars

\* A session is over in which the sync source sent as many bytes as it may,
\* the first of them the byte the identifier is made of.
C16_Witness ==
  /\ \E i \in ProxyWorkers : wk[i].pc = "exited"
  /\ Len(backends) = 1
  /\ Len(backends[1].recv) = MaxFwdLen
  /\ backends[1].recv[1] = pcl.id[1]


(***************************************************************************)
(* SpecDial: a sync client and a proxy client dial targets on which        *)
(* nothing ever listens.                                                   *)
(***************************************************************************)
InitDial ==
  /\ SyncIdle
  /\ conns = [c \in Conns |-> NoConn]
  /\ processing = [h \in Identifiers \cup {NoFile} |-> 0]
  /\ wk = [i \in ProxyWorkers |-> IdleWorker]
  /\ backends = <<>>
  /\ pwg = NumIds
  /\ ppc = "off"
  /\ \E id \in Identifiers : pcl = [IdleProxyClient EXCEPT !.pc = "listen", !.id = id]
  /\ dial = [IdleDial EXCEPT !.pc = "dial"]

NextDial == Connect \/ PCAccept \/ PCDial

SpecDial == InitDial /\ [][NextDial]_vars

\* C17 (bounded dial retry): when the target never accepts, neither the
\* sync client's Connect nor the proxy client's dial loop makes more than 30
\* dial attempts, and a loop that has made 30 has returned an error.
C17_BoundedDial ==
  /\ dial.attempts <= maxRetries
  /\ pcl.attempts <= maxRetries
  /\ dial.attempts = maxRetries => dial.pc = "failed"
  /\ pcl.attempts = maxRetries => pcl.pc = "failed"


(***************************************************************************)
(* SpecHashFault: one FileHasher hashes a file of zeros while at most one  *)
(* of its workers fails to open the file and the seek or the read of at    *)
(* most one block fails.                                                   *)
(***************************************************************************)
InitHashFault ==
  /\ wrFail = NoWriteFault
  /\ wrErr = "unset"
  /\ rdErr = "EOF"
  /\ NetInit
  /\ \E w \in 0..defaultConcurrency, off \in {0 - 1} \cup BlockOffsets(MaxHashLen, BlockSize) :
       hfault = [open |-> w, read |-> off, size |-> "none"]
  /\ punchErr = "nil"
  /\ \E n \in 0..MaxHashLen : sfile = Zeros(n)
  /\ tfile = <<>>
  /\ tfile0 = tfile
  /\ blockSize = [r \in Roles |-> BlockSize]
  /\ isDevice = FALSE
  /\ prealloc = FALSE
  /\ HasherInit
  /\ ProtocolInit

NextHashFault == HashFileCall \/ Hashing("client")

SpecHashFault == InitHashFault /\ [][NextHashFault]_vars

\* C18 (hashing errors propagate): HashFile does not return f.fileSize, nil
\* when one of its workers has failed to open the file or to seek or read a
\* block; the return of the model is that return, the only one HashFile has
\* once its workers are started.
C18_HashErrorsPropagate ==
  \A r \in Roles : hpc[r] = "returned" => hlog[r] = {}


(***************************************************************************)
(* SpecPunchFault: SpecRecv on a file system that cannot punch holes, the  *)
(* connection ending with io.EOF.                                          *)
(***************************************************************************)
InitPunchFault == RecvInit({"EOF"}, "ErrPunchHoleNotSupported", {0 - 1}, Files(MaxRecvLen), TRUE)

SpecPunchFault == InitPunchFault /\ [][NextRecv]_vars

\* C19 (hole-punch failure is fatal): when PunchHole has failed, on the tail
\* of a device target or for a HOLE record without preallocation,
\* StartServer does not return nil.
C19_PunchFailureFatal ==
  (/\ spc = "done"
   /\ punchErr # "nil"
   /\ \E i \in 1..Len(fops) : fops[i].op = "punch") => sres = "err"


\* C20 (non-EOF reception errors are fatal): when blockReader.Next returns
\* an error, which it does for every error of the connection other than
\* io.EOF and io.ErrUnexpectedEOF, StartServer returns an error and reports
\* no successful sync.
C20_Step ==
  (/\ spc = "blocks"
   /\ Next(br, rd, blockSize["server"], rdErr).err # "nil") =>
     /\ spc' = "done"
     /\ sres' = "err"

C20_ReceptionErrorFatal == [][C20_Step]_vars


(***************************************************************************)
(* SpecBadKind: SpecRecv with a peer that writes 2 as the kind byte of its *)
(* first record, the connection ending with io.EOF.                        *)
(***************************************************************************)
InitBadKind == RecvInit({"EOF"}, "nil", {2}, Files(MaxRecvLen), TRUE)

SpecBadKind == InitBadKind /\ [][NextRecv]_vars

\* C21 (unknown record kind is a protocol error): when the record the
\* server is about to read has a kind byte that is neither Hole nor Block,
\* the server's next step ends the sync with an error and leaves the target
\* file as it is.
C21_Step ==
  (/\ spc = "blocks"
   /\ Len(rd) >= Int64Len + 1
   /\ rd[Int64Len + 1] \notin {Hole, Block}) =>
     /\ spc' = "done"
     /\ sres' = "err"
     /\ tfile' = tfile
     /\ fops' = fops

C21_UnknownKindRejected == [][C21_Step]_vars


\* Every key of the hash map of r is the offset of a block of the file.
KeysInFile(r) ==
  \A k \in DOMAIN hashes[r] :
    /\ 0 <= k
    /\ k < fileSize[r]
    /\ k % blockSize[r] = 0

\* C22 (hash map key invariant): after every step during and after HashFile
\* every key k of the hash map has 0 <= k < file size and k mod B = 0, and
\* a result that HashFile takes from the result channel is stored under a
\* key the map does not hold yet.
C22_Step ==
  \A r \in Roles :
    /\ KeysInFile(r)'
    /\ (hpc[r] = "collect" /\ hpc'[r] = "collect" /\ Len(res'[r]) < Len(res[r])) =>
         /\ Head(res[r]).Offset \notin DOMAIN hashes[r]
         /\ DOMAIN hashes'[r] = DOMAIN hashes[r] \cup {Head(res[r]).Offset}

C22_HashKeyInvariant == [][C22_Step]_vars

\* HashFile has returned with the four keys of a file of seven bytes.
C22_Witness ==
  /\ hpc["client"] = "returned"
  /\ fileSize["client"] = 3 * BlockSize + 1
  /\ DOMAIN hashes["client"] = BlockOffsets(3 * BlockSize + 1, BlockSize)


(***************************************************************************)
(* SpecDiffPeer: DiffHashes against what DeserializeHashes accepts of the  *)
(* bytes of a peer that sends the source's block size and up to two        *)
(* entries, at any offsets up to MaxDiffSize.                              *)
(***************************************************************************)
InitDiffPeer ==
  DiffInit({p \in {DeserializeHashes(SerializeHashes(BlockSize, m).out) :
                     m \in {h \in HashMaps(0..MaxDiffSize) : Cardinality(DOMAIN h) <= 2}} :
              p.err = "nil"})

SpecDiffPeer == InitDiffPeer /\ [][NextDiff]_vars

\* C23 (diff set invariant): for every peer hash map that DeserializeHashes
\* accepted, every offset of the diff DiffHashes returns is a multiple of B
\* and lies in [0, source size), and no offset is in it twice.
C23_DiffSetInvariant ==
  diffErr = "nil" =>
    /\ \A i \in 1..Len(diff) :
         /\ diff[i] % blockSize["client"] = 0
         /\ 0 <= diff[i]
         /\ diff[i] < sourceSize
    /\ Cardinality(Range(diff)) = Len(diff)


\* The workers of r that HashFile has started.
Started(r) == {w \in WorkerIds : workers[r][w].st # "unborn"}

\* C24 (worker count): while HashFile starts its workers it has started
\* fewer than min(defaultConcurrency, floor(size / B)); from the end of that
\* loop until it returns it has started exactly that many, so never more
\* than defaultConcurrency workers hash at a time.
C24_WorkerCount ==
  \A r \in Roles :
    LET count == IF fileSize[r] \div blockSize[r] < defaultConcurrency
                   THEN fileSize[r] \div blockSize[r] ELSE defaultConcurrency
    IN /\ Cardinality(Started(r)) = spawned[r]
       /\ hpc[r] = "spawn" => spawned[r] < count
       /\ hpc[r] = "collect" => spawned[r] = count
       /\ Cardinality(Started(r)) <= defaultConcurrency

\* A file of more blocks than defaultConcurrency: all the workers started
\* are hashing a block at once, and offsets are still queued.
C24_Witness ==
  /\ hpc["client"] = "collect"
  /\ fileSize["client"] \div blockSize["client"] > defaultConcurrency
  /\ \A w \in WorkerIds : workers["client"][w].st = "send"
  /\ queue["client"] # <<>>


\* C25 (hash before exchange on the target): in every interleaving of the
\* hashing goroutine and the accept path, the step in which the target
\* sends its hash of hashes and the step in which it serializes its hash
\* map are taken when its HashFile call has returned, and the target is
\* past the ready signal only then.
C25_Step ==
  /\ hh'["server"] # hh["server"] => hpc["server"] = "returned"
  /\ s2c' # s2c => hpc["server"] = "returned"
  /\ spc' \in {"hashhash", "readSize", "blocks"} => hpc'["server"] = "returned"

C25_HashBeforeExchange == [][C25_Step]_vars

\* The target has accepted the connection while its file was being hashed,
\* and waits for the ready signal.
C25_Witness ==
  /\ spc = "ready"
  /\ hpc["server"] = "collect"
  /\ hashes["server"] # EmptyMap
  /\ hh["client"] # <<>>


\* C26 (HashFile completion ordering): HashFile returns only in a state in
\* which the dispatcher has closed the offset queue and every worker that
\* was started has finished, none of them hashing or waiting to send.
C26_Step ==
  \A r \in Roles :
    (hpc[r] = "collect" /\ hpc'[r] = "returned") =>
      /\ qclosed[r]
      /\ \A w \in Started(r) : workers[r][w].st = "exit"

C26_CompletionOrdering == [][C26_Step]_vars


(***************************************************************************)
(* SpecRecvOrder: SpecRecv with the records of the diff transmitted in any *)
(* order, the connection ending with io.EOF.                               *)
(***************************************************************************)
InitRecvOrder == RecvInit({"EOF"}, "nil", {0 - 1}, Files(MaxOrderLen), FALSE)

SpecRecvOrder == InitRecvOrder /\ [][NextRecv]_vars

\* writeBlocksToFile with the stream of the records sent, in ascending order.
Ascending ==
  writeBlocksToFile(StreamOf(sourceSize, writeBlocksToServer(sourceSize, diff, sfile, BlockSize).records),
                    tfile0, Len(tfile0), BlockSize, prealloc, isDevice, rdErr)

\* The target has received the whole stream of the records sent, which it
\* applies without an error of the file when they come in ascending order.
ReceivedAll == spc = "done" /\ c2s = StreamOf(sourceSize, sent) /\ Ascending.err = "nil"

\* What the target has done, as a set, and what it holds are what they are
\* after the same records in ascending order.
SameAsAscending ==
  /\ tfile = Ascending.file
  /\ Range(fops) = Range(Ascending.ops)
  /\ sres = "ok"

\* No record but the last one sent has a payload shorter than a block.
ShortLast ==
  \A i \in 1..(Len(sent) - 1) : sent[i].kind = Block => Len(sent[i].payload) = BlockSize

C28_PreallocKeepsSize ==
  (spc = "done" /\ sres = "ok" /\ prealloc /\ ~isDevice /\ c2s = StreamOf(sourceSize, sent)) =>
    /\ \A i \in DOMAIN fops : fops[i].op = "write" => fops[i].off + fops[i].len <= sourceSize
    /\ Len(tfile) = sourceSize

\* C29 (end of stream modifies nothing): a turn of the loop of
\* writeBlocksToFile that finds the stream ended with io.EOF at a record
\* boundary ends the reception with success and leaves the file as it is,
\* with no operation done on it.
C29_Step ==
  (spc = "blocks" /\ rd = <<>> /\ rdErr = "EOF") =>
    spc' = "done" /\ sres' = "ok" /\ tfile' = tfile /\ fops' = fops

C29_EndOfStreamModifiesNothing == [][C29_Step]_vars

(***************************************************************************)
(* SpecHashFail: SpecSync where getFileSize may fail in the HashFile that  *)
(* the goroutine of StartServer calls.                                     *)
(***************************************************************************)
InitHashFail == SyncInit({NoHashFault, [NoHashFault EXCEPT !.size = "server"]})

SpecHashFail == InitHashFail /\ [][NextSync]_vars

\* C30 (target hashing failure propagates): when HashFile has failed in the
\* goroutine of StartServer, the server sends neither a hash of hashes nor
\* hashes, does nothing to the file, and StartServer returns an error.
C30_TargetHashFailurePropagates ==
  hpc["server"] = "failed" =>
    /\ hh["server"] = <<>>
    /\ s2c = <<>>
    /\ fops = <<>>
    /\ spc = "done" => sres = "err"

\* C31 (a dropped connection aborts the sync): when the connection has
\* delivered less than the source size and all the records of the diff,
\* StartServer does not return nil.
C31_DroppedConnectionAborts ==
  (spc = "done" /\ Len(c2s) < Len(StreamOf(sourceSize, sent))) => sres # "ok"

\* C32 (holes are never lossy): every record that writeBlocksToServer has
\* written is of kind HOLE or BLOCK, and one of kind HOLE is for an offset
\* whose source block, full or short, holds only zero bytes.
C32_HolesNeverLossy ==
  Written =>
    \A i \in DOMAIN sent :
      /\ sent[i].kind \in {Hole, Block}
      /\ sent[i].kind = Hole => IsZero(SourceBlock(sent[i].offset))

\* A HOLE record written after the buffer has held a block with a non-zero
\* byte, and a BLOCK record written after it.
C32_Witness ==
  /\ Written
  /\ Len(sent) = 3
  /\ sent[1].kind = Block
  /\ sent[2].kind = Hole
  /\ sent[3].kind = Block

(***************************************************************************)
(* SpecProxyFail: SpecProxy where every dialler has sent a declared        *)
(* identifier and any of the connections is reset instead of closed.       *)
(***************************************************************************)
InitProxyFail == ProxyInit(Identifiers, SUBSET Conns)

SpecProxyFail == InitProxyFail /\ [][NextProxy]_vars

\* A session for the identifier id has failed: startsBlockrsyncServer
\* returned the error of the copy.
SessionFailed(id) == \E c \in Conns : Carries(c, id) /\ conns[c].by = "failed"

\* A worker other than i is in a session for the identifier id, or has
\* completed one.
InSession(i, id) ==
  \E k \in ProxyWorkers \ {i} :
    wk[k].header = id /\ wk[k].pc \in {"fork", "dial", "copy", "exited"}

\* C33 (proxy recovery after a failed session): a worker that has read a
\* declared identifier, a session for which has failed and for which no
\* other worker is in a session or has completed one, goes on to start a
\* sync server for the connection when it leaves the mutex.
C33_Step ==
  \A i \in ProxyWorkers :
    (/\ wk[i].pc = "lock"
     /\ wk'[i] # wk[i]
     /\ wk[i].header \in Identifiers
     /\ SessionFailed(wk[i].header)
     /\ ~InSession(i, wk[i].header)) => wk'[i].pc = "fork"

C33_ProxyRecovery == [][C33_Step]_vars

\* C34 (the proxy propagates end-of-stream): once a session has ended, the
\* source having closed its connection and io.Copy having forwarded all of
\* its bytes, the connection of the proxy to the session's sync server is
\* closed, whatever the other workers and StartServer are doing.
C34_EndOfStreamPropagated ==
  \A j \in 1..Len(backends) :
    conns[backends[j].conn].by = "session" => backends[j].eof

====
